---- MODULE Spec2Model ----
(***************************************************************************)
(* Header/column detection and upload handling of the sales-file analyser  *)
(* (controllers.UploadAnalyze and its helpers).                            *)
(*                                                                         *)
(* Text is kept as strings of the characters U+0001..U+00FF; the Go string *)
(* functions the code calls (TrimSpace, ToLower, EqualFold, Contains,      *)
(* Itoa) are computed character by character as Unicode defines them on   *)
(* that range, and where the code indexes a string (editDistance) the      *)
(* string is taken as its UTF-8 bytes.  A grid is a sequence of rows, a    *)
(* row a sequence of cells; Go's 0-based row indices are kept (row i of    *)
(* the code is rows[i+1] here).                                            *)
(***************************************************************************)
EXTENDS Integers, Sequences, FiniteSets, TLC

VARIABLES
    reqs,             \* per request: position in UploadAnalyze and its locals
    column_mappings,  \* rows of table column_mappings
    sales_metrics,    \* rows of table sales_metrics, in insertion order
    cfg,              \* config.Config: whether GeminiAPIKey is set
    received,         \* number of uploads received so far
    others,           \* number of rows the other handlers have written
    completed,        \* <<user_id, preview>> of the uploads answered with 200
    probe             \* a helper called on its own: arguments and result

vars == <<reqs, column_mappings, sales_metrics, cfg, received, others, completed, probe>>

---------------------------------------------------------------------------
(* Bounds of the model *)

MaxRows == 6      \* longest grid given to heuristicDetect on its own
MaxCols == 3      \* widest header row given to pickColumn / findColumn
NProcs == 2       \* requests that can be in flight together
MaxUploads == 2   \* uploads received in one run
MaxOthers == 1    \* rows written by the other handlers in one run
MaxRecords == 3   \* data rows of a grid given to the cleaning pipeline on its own

---------------------------------------------------------------------------
(* Program constants *)

PreviewRows == 5  \* firstNRows(allRows, 5)
LastScanned == 4  \* heuristicDetect: if i >= 4 { break }

salesKeywords ==
    <<"sales", "amount", "amt", "net amt", "net amount", "total",
      "grand total", "invoice amount", "subtotal", "item net amt">>

billKeywords ==
    <<"bill", "bill no", "bill number", "invoice", "invoice no",
      "invoice number", "inv", "ref no", "reference", "voucher", "receipt">>

---------------------------------------------------------------------------
(* Go string functions *)

CharAt(s, i) == SubSeq(s, i, i)

\* the characters a string can hold here, in the order of their code points:
\* U+0001..U+00FF without the backquote U+0060
Latin1 ==
    "\t\n\f\r !\"#$%&'()*+,-./0123456789:;<=>?@ABCDEFGHIJKLMNOPQRSTUVWXYZ[\\]^_abcdefghijklmnopqrstuvwxyz{|}~ ¡¢£¤¥¦§¨©ª«¬­®¯°±²³´µ¶·¸¹º»¼½¾¿ÀÁÂÃÄÅÆÇÈÉÊËÌÍÎÏÐÑÒÓÔÕÖ×ØÙÚÛÜÝÞßàáâãäåæçèéêëìíîïðñòóôõö÷øùúûüýþÿ"

\* the code point of a character
CodeOf ==
    [c \in {CharAt(Latin1, k) : k \in 1..254} |->
        LET k == CHOOSE n \in 1..254 : CharAt(Latin1, n) = c
        IN  IF k < 96 THEN k ELSE k + 1]

\* the character of a code point
CharOf(n) == CharAt(Latin1, IF n < 96 THEN n ELSE n - 1)

\* ch >= 'A' && ch <= 'Z', ch >= 'a' && ch <= 'z'
IsUpper(c) == CodeOf[c] \in 65..90
IsLower(c) == CodeOf[c] \in 97..122
\* unicode.IsSpace on the characters a string of the model can hold (up to
\* U+00FF): space, \t, \n, \f, \r, and, written as the characters
\* themselves, the vertical tab U+000B, U+0085 and U+00A0
IsSpace(c) == c \in {" ", "\t", "\n", "\f", "\r", "", "", " "}

\* unicode.ToLower up to U+00FF: the capitals A..Z and U+00C0..U+00DE
\* (without the sign U+00D7) have their small letter 32 code points on
LowerChar(c) ==
    IF CodeOf[c] \in (65..90) \cup ((192..222) \ {215}) THEN CharOf(CodeOf[c] + 32) ELSE c

RECURSIVE LowerFrom(_, _)
LowerFrom(s, i) ==
    IF i > Len(s) THEN "" ELSE LowerChar(CharAt(s, i)) \o LowerFrom(s, i + 1)

\* strings.ToLower
ToLower(s) == LowerFrom(s, 1)

SetMin(S) == CHOOSE m \in S : \A n \in S : m <= n
SetMax(S) == CHOOSE m \in S : \A n \in S : m >= n

\* strings.TrimSpace
TrimSpace(s) ==
    LET solid == {i \in 1..Len(s) : ~IsSpace(CharAt(s, i))}
    IN  IF solid = {} THEN "" ELSE SubSeq(s, SetMin(solid), SetMax(solid))

\* strings.EqualFold: equal under simple case folding; up to U+00FF the
\* characters that fold together are a capital and its small letter
EqualFold(s, t) == ToLower(s) = ToLower(t)

\* the bytes of s in UTF-8 from its i-th character on: one byte below
\* U+0080, two bytes from there to U+00FF
RECURSIVE utf8(_, _)
utf8(s, i) ==
    IF i > Len(s) THEN <<>>
    ELSE LET n == CodeOf[CharAt(s, i)]
         IN  (IF n < 128 THEN <<n>> ELSE <<192 + (n \div 64), 128 + (n % 64)>>)
                 \o utf8(s, i + 1)

\* strings.Contains
Contains(s, sub) ==
    \E i \in 1..(Len(s) - Len(sub) + 1) : SubSeq(s, i, i + Len(sub) - 1) = sub

\* strconv.Itoa, for the indices the code gives it
Itoa(n) == ToString(n)

---------------------------------------------------------------------------
(* Header detection helpers *)

firstNRows(rows, n) == IF Len(rows) <= n THEN rows ELSE SubSeq(rows, 1, n)

hasLetter(s) == \E i \in 1..Len(s) : IsUpper(CharAt(s, i)) \/ IsLower(CharAt(s, i))

normalizeHeaders(rows, headerIdx) ==
    IF headerIdx < 0 \/ headerIdx >= Len(rows)
    THEN <<>>
    ELSE LET raw == rows[headerIdx + 1]
         IN  [i \in 1..Len(raw) |->
                 IF TrimSpace(raw[i]) = "" THEN "Col" \o Itoa(i - 1)
                                           ELSE TrimSpace(raw[i])]

RECURSIVE pickExact(_, _, _)

\* a first pass with the loops swapped: header by header, any keyword
pickExactByHeader(headers, keywords, k) ==
    LET hit == {j \in 1..Len(headers) :
                   \E n \in k..Len(keywords) : EqualFold(headers[j], keywords[n])}
    IN  IF hit # {} THEN <<headers[SetMin(hit)]>> ELSE <<>>

\* first pass of pickColumn: keyword k (in order), then header h (in order);
\* <<h>> for the header returned, <<>> when the pass ends without a return
pickExact(headers, keywords, k) ==
    IF k > Len(keywords) THEN <<>>
    ELSE LET hit == {j \in 1..Len(headers) : EqualFold(headers[j], keywords[k])}
         IN  IF hit # {} THEN <<headers[SetMin(hit)]>>
             ELSE pickExact(headers, keywords, k + 1)

RECURSIVE pickSubstring(_, _, _)

\* pickColumn without its substring pass
pickSubstringNone(headers, keywords, k) == ""

\* second pass of pickColumn
pickSubstring(headers, keywords, k) ==
    IF k > Len(keywords) THEN ""
    ELSE LET lk  == ToLower(keywords[k])
             hit == {j \in 1..Len(headers) : Contains(ToLower(headers[j]), lk)}
         IN  IF hit # {} THEN headers[SetMin(hit)]
             ELSE pickSubstring(headers, keywords, k + 1)

pickColumn(headers, keywords) ==
    LET exact == pickExact(headers, keywords, 1)
    IN  IF exact # <<>> THEN exact[1] ELSE pickSubstring(headers, keywords, 1)

\* the second loop without its test t != ""
findLoweredUnguarded(headers, t) ==
    LET exact == {j \in 1..Len(headers) : ToLower(TrimSpace(headers[j])) = t}
        sub   == {j \in 1..Len(headers) : Contains(ToLower(headers[j]), t)}
    IN  IF exact # {} THEN headers[SetMin(exact)]
        ELSE IF sub # {} THEN headers[SetMin(sub)]
        ELSE ""

\* the two loops of findColumn, for t the trimmed, lower-cased target
findLowered(headers, t) ==
    LET exact == {j \in 1..Len(headers) : ToLower(TrimSpace(headers[j])) = t}
        sub   == {j \in 1..Len(headers) :
                     t # "" /\ Contains(ToLower(headers[j]), t)}
    IN  IF exact # {} THEN headers[SetMin(exact)]
        ELSE IF sub # {} THEN headers[SetMin(sub)]
        ELSE ""

findColumn(headers, target) == findLowered(headers, TrimSpace(ToLower(target)))

\* cells of row r that are non-empty after trimming / that also hold a letter
nonEmptyCells(r) == Cardinality({j \in 1..Len(r) : TrimSpace(r[j]) # ""})
alphaCells(r) ==
    Cardinality({j \in 1..Len(r) : TrimSpace(r[j]) # "" /\ hasLetter(TrimSpace(r[j]))})

\* the loop of heuristicDetect from row i on; the best score so far is the
\* fraction bestNum/bestDen (float64(alpha)/float64(nonEmpty) of the code)
RECURSIVE heuristicLoop(_, _, _, _, _)

\* a later row of equal score replaces the candidate (score >= bestScore)
heuristicLoopTiesLater(rows, i, headerIdx, bestNum, bestDen) ==
    IF i >= Len(rows) THEN headerIdx
    ELSE LET nonEmpty == nonEmptyCells(rows[i + 1])
             alpha    == alphaCells(rows[i + 1])
             better   == /\ 2 * alpha >= nonEmpty
                         /\ alpha * bestDen >= bestNum * nonEmpty
             idx2     == IF better THEN i ELSE headerIdx
             num2     == IF better THEN alpha ELSE bestNum
             den2     == IF better THEN nonEmpty ELSE bestDen
         IN  IF nonEmpty = 0
             THEN heuristicLoop(rows, i + 1, headerIdx, bestNum, bestDen)
             ELSE IF i >= LastScanned THEN idx2
             ELSE heuristicLoop(rows, i + 1, idx2, num2, den2)

heuristicLoop(rows, i, headerIdx, bestNum, bestDen) ==
    IF i >= Len(rows) THEN headerIdx
    ELSE LET nonEmpty == nonEmptyCells(rows[i + 1])
             alpha    == alphaCells(rows[i + 1])
             better   == /\ 2 * alpha >= nonEmpty
                         /\ alpha * bestDen > bestNum * nonEmpty
             idx2     == IF better THEN i ELSE headerIdx
             num2     == IF better THEN alpha ELSE bestNum
             den2     == IF better THEN nonEmpty ELSE bestDen
         IN  IF nonEmpty = 0
             THEN heuristicLoop(rows, i + 1, headerIdx, bestNum, bestDen)
             ELSE IF i >= LastScanned THEN idx2
             ELSE heuristicLoop(rows, i + 1, idx2, num2, den2)

\* lines 360-389 of heuristicDetect: the header row index
heuristicHeader(rows) ==
    LET found == heuristicLoop(rows, 0, -1, -1, 1)
    IN  IF found = -1 THEN 0 ELSE found

\* lines 390-393 of heuristicDetect: the columns of the header row chosen
heuristicColumns(headerIdx, headers) ==
    [headerIdx |-> headerIdx,
     sales     |-> pickColumn(headers, salesKeywords),
     bill      |-> pickColumn(headers, billKeywords)]

heuristicPick(rows, headerIdx) ==
    heuristicColumns(headerIdx, normalizeHeaders(rows, headerIdx))

heuristicDetect(rows) == heuristicPick(rows, heuristicHeader(rows))

---------------------------------------------------------------------------
(* Records and the cleaning helpers *)

\* the record of grid row r: header name -> trimmed cell; a name held by two
\* positions keeps the cell of the later one (m[headers[j]] = v, j ascending)
recordOf(r, headers) ==
    [h \in {headers[j] : j \in 1..Len(headers)} |->
        LET j == SetMax({k \in 1..Len(headers) : headers[k] = h})
        IN  IF j <= Len(r) THEN TrimSpace(r[j]) ELSE ""]

buildRecords(rows, headerIdx, headers) ==
    [n \in 1..(Len(rows) - headerIdx - 1) |-> recordOf(rows[headerIdx + 1 + n], headers)]

\* r[col] of a Go map: the zero value "" for a missing key
Field(r, col) == IF col \in DOMAIN r THEN r[col] ELSE ""

\* the set without its entry "0"
emptyBillNoZero == {"", "-", "na", "n/a", "none", "null", "nil", "nan"}

emptyBill == {"", "-", "na", "n/a", "none", "null", "nil", "nan", "0"}

isEffectivelyEmptyBill(x) == TrimSpace(ToLower(x)) \in emptyBill

\* the rows kept, in order, and the removed indices (0-based, as the code
\* numbers them); drop holds the positions removed
split(rows, drop) ==
    LET keep(i) == i \notin drop
        at      == SelectSeq([i \in 1..Len(rows) |-> i], keep)
    IN  [kept    |-> [n \in 1..Len(at) |-> rows[at[n]]],
         removed |-> {i - 1 : i \in drop}]

dropBlankRows(rows) ==
    LET nonempty(r) == \E h \in DOMAIN r : TrimSpace(r[h]) # ""
    IN  SelectSeq(rows, nonempty)

IsWordChar(c) == IsUpper(c) \/ IsLower(c) \/ c \in {"0","1","2","3","4","5","6","7","8","9","_"}

\* \b between positions i-1 and i of t (1-based; i = Len(t)+1 is the end)
WordBoundary(t, i) ==
    LET before == i > 1 /\ IsWordChar(CharAt(t, i - 1))
        after  == i <= Len(t) /\ IsWordChar(CharAt(t, i))
    IN  before # after

\* the literal lit at position i of t: the position after it, or 0
AfterLiteral(t, i, lit) ==
    IF i >= 1 /\ i + Len(lit) - 1 <= Len(t) /\ SubSeq(t, i, i + Len(lit) - 1) = lit
    THEN i + Len(lit) ELSE 0

\* \s* at position i of t followed by a non-space literal: the position after
\* the whole run of spaces
RECURSIVE AfterSpaces(_, _)
AfterSpaces(t, i) ==
    IF i <= Len(t) /\ CharAt(t, i) \in {" ", "\t", "\n", "\r", "\f"}
    THEN AfterSpaces(t, i + 1) ELSE i

\* sub\s*total\b from position i
EndsWord(t, b) == b # 0 /\ WordBoundary(t, b)

\* \s*total\b from position a (0: the text before did not match)
SpacedTotalAt(t, a) ==
    IF a = 0 THEN FALSE
    ELSE EndsWord(t, AfterLiteral(t, AfterSpaces(t, a), "total"))

SubTotalAt(t, i) == SpacedTotalAt(t, AfterLiteral(t, i, "sub"))

\* grand\s* then (sub\s*)?total\b from position i
GrandThen(t, a) ==
    IF a = 0 THEN FALSE
    ELSE SubTotalAt(t, AfterSpaces(t, a)) \/ SpacedTotalAt(t, a)

GrandTotalAt(t, i) == GrandThen(t, AfterLiteral(t, i, "grand"))

TotalAt(t, i) == EndsWord(t, AfterLiteral(t, i, "total"))

\* totalRegex.MatchString(t):
\*   (?i)\b(grand\s*)?sub\s*total\b|\bgrand\s*total\b|\btotal\b
matchTotal(lt) ==
    \E i \in 1..Len(lt) :
        /\ WordBoundary(lt, i)
        /\ SubTotalAt(lt, i) \/ GrandTotalAt(lt, i) \/ TotalAt(lt, i)

totalRegex(t) == matchTotal(ToLower(t))

min(a, b, c) ==
    LET m1 == IF b < a THEN b ELSE a IN IF c < m1 THEN c ELSE m1

\* row i of the Levenshtein table dp, given row i-1 (prev); columns 0..len(b).
\* a and b are the strings as Go indexes them, byte by byte
RECURSIVE dpRow(_, _, _, _, _)
dpRow(a, b, i, prev, row) ==
    LET j == Len(row)      \* next column to fill (row[1] is column 0)
    IN  IF j > Len(b) THEN row
        ELSE LET cost == IF a[i] # b[j] THEN 1 ELSE 0
             IN  dpRow(a, b, i, prev,
                       Append(row, min(prev[j + 1] + 1, row[j] + 1, prev[j] + cost)))

RECURSIVE dpFrom(_, _, _, _)
dpFrom(a, b, i, prev) ==
    \* a row is never empty: its length is asked for so that each row is
    \* worked out before the next one is started
    IF i > Len(a) \/ Len(prev) = 0 THEN prev[Len(b) + 1]
    ELSE dpFrom(a, b, i + 1, dpRow(a, b, i, prev, <<i>>))

\* la, lb := len(a), len(b) count bytes and a[i-1] is a byte
editDistance(a, b) ==
    LET x == utf8(a, 1)
        y == utf8(b, 1)
    IN  IF Len(x) = 0 THEN Len(y)
        ELSE IF Len(y) = 0 THEN Len(x)
        ELSE dpFrom(x, y, 1, [j \in 1..(Len(y) + 1) |-> j - 1])

\* looksLikeTotalWord for t the trimmed, lower-cased cell
looksLikeTotal(t) ==
    IF t = "" THEN FALSE
    ELSE IF totalRegex(t) THEN TRUE
    ELSE editDistance(t, "total") <= 1

looksLikeTotalWord(s) == looksLikeTotal(TrimSpace(ToLower(s)))

\* only a cell that reads "total" itself
rowIsTotalishExact(r) == \E h \in DOMAIN r : TrimSpace(ToLower(r[h])) = "total"

rowIsTotalish(r) == \E h \in DOMAIN r : looksLikeTotalWord(r[h])

\* the second column taken at headers[0]
dropIfFirstColumnTotalish(rows, headers) ==
    IF Len(rows) = 0 \/ Len(headers) < 2
    THEN [kept |-> rows, removed |-> {}]
    ELSE split(rows, {i \in 1..Len(rows) :
                          looksLikeTotalWord(Field(rows[i], headers[1]))})

\* kept rows and the removed indices (0-based, into the rows given)
dropIfSecondColumnTotalish(rows, headers) ==
    IF Len(rows) = 0 \/ Len(headers) < 2
    THEN [kept |-> rows, removed |-> {}]
    ELSE split(rows, {i \in 1..Len(rows) :
                          looksLikeTotalWord(Field(rows[i], headers[2]))})

---------------------------------------------------------------------------
(* Numbers: a parsed value is mant / 10^scale, or NaN *)

Digits == "0123456789"
IsDigit(c) == \E d \in 1..10 : CharAt(Digits, d) = c
DigitVal(c) == (CHOOSE d \in 1..10 : CharAt(Digits, d) = c) - 1

NaN == [nan |-> TRUE, mant |-> 0, scale |-> 0]
Num(m, s) == [nan |-> FALSE, mant |-> m, scale |-> s]

RECURSIVE Pow10(_)
Pow10(n) == IF n <= 0 THEN 1 ELSE 10 * Pow10(n - 1)

\* the characters toNumeric keeps: digits, '.', '-'
RECURSIVE keepNumeric(_, _)
keepNumeric(t, i) ==
    IF i > Len(t) THEN ""
    ELSE (IF IsDigit(CharAt(t, i)) \/ CharAt(t, i) \in {".", "-"}
          THEN CharAt(t, i) ELSE "") \o keepNumeric(t, i + 1)

RECURSIVE digitsValue(_, _, _)
digitsValue(d, i, acc) ==
    IF i > Len(d) THEN acc
    ELSE IF CharAt(d, i) = "." THEN digitsValue(d, i + 1, acc)
    ELSE digitsValue(d, i + 1, 10 * acc + DigitVal(CharAt(d, i)))

\* strconv.ParseFloat on text made of digits, '.' and '-' only: an optional
\* leading '-', then digits with at most one '.', and at least one digit
parseUnsigned(neg, body) ==
    LET dots  == {i \in 1..Len(body) : CharAt(body, i) = "."}
        minus == {i \in 1..Len(body) : CharAt(body, i) = "-"}
    IN  IF minus # {} \/ Cardinality(dots) > 1 \/ Len(body) - Cardinality(dots) = 0
        THEN NaN
        ELSE Num(IF neg THEN 0 - digitsValue(body, 1, 0) ELSE digitsValue(body, 1, 0),
                 IF dots = {} THEN 0 ELSE Len(body) - SetMin(dots))

ParseFloat(c) ==
    IF Len(c) >= 1 /\ CharAt(c, 1) = "-"
    THEN parseUnsigned(TRUE, SubSeq(c, 2, Len(c)))
    ELSE parseUnsigned(FALSE, c)

parseCleaned(cleaned) == IF Len(cleaned) = 0 THEN NaN ELSE ParseFloat(cleaned)

parseTrimmed(t) == IF t = "" THEN NaN ELSE parseCleaned(keepNumeric(t, 1))

toNumeric(s) == parseTrimmed(TrimSpace(s))

---------------------------------------------------------------------------
(* float64 arithmetic.  A double is kept as its sign and its magnitude, *)
(* the magnitude as a whole number of units of 2^-FracBits written in   *)
(* limbs of 15 bits, lowest first; every double between 2^-97 and 2^31  *)
(* is such a number.                                                    *)

Limb == 32768
FracBits == 150

Pow2(n) ==
    <<1, 2, 4, 8, 16, 32, 64, 128, 256, 512, 1024, 2048, 4096, 8192, 16384>>[n + 1]

\* x * c + carry on limbs i.., for c < Limb
RECURSIVE bnMul(_, _, _, _)
bnMul(x, c, i, carry) ==
    IF i > Len(x) THEN (IF carry = 0 THEN <<>> ELSE <<carry>>)
    ELSE <<(x[i] * c + carry) % Limb>>
             \o bnMul(x, c, i + 1, (x[i] * c + carry) \div Limb)

\* the limbs i..1 of x divided by c, rem being what the limbs above left:
\* the remainder, then the limbs of the quotient
RECURSIVE bnDiv(_, _, _, _)
bnDiv(x, c, i, rem) ==
    IF i = 0 THEN <<rem>>
    ELSE Append(bnDiv(x, c, i - 1, (rem * Limb + x[i]) % c),
                (rem * Limb + x[i]) \div c)

\* x + sign * y on limbs i.. (x >= y when sign is -1)
RECURSIVE bnAdd(_, _, _, _, _)
bnAdd(x, y, sign, i, carry) ==
    IF i > Len(x) /\ i > Len(y)
    THEN (IF carry = 0 THEN <<>> ELSE <<carry>>)
    ELSE LET v == (IF i <= Len(x) THEN x[i] ELSE 0)
                    + sign * (IF i <= Len(y) THEN y[i] ELSE 0) + carry
         IN  <<(v + Limb) % Limb>>
                 \o bnAdd(x, y, sign, i + 1, IF v < 0 THEN -1 ELSE v \div Limb)

\* the number of bits of x (0 for zero)
bnBits(x) ==
    LET set == {i \in 1..Len(x) : x[i] # 0}
    IN  IF set = {} THEN 0
        ELSE 15 * (SetMax(set) - 1)
               + (CHOOSE k \in 1..15 : x[SetMax(set)] < Pow2(k - 1) * 2
                                         /\ x[SetMax(set)] >= Pow2(k - 1))

\* x * 2^n
bnShl(x, n) == [i \in 1..(n \div 15) |-> 0] \o bnMul(x, Pow2(n % 15), 1, 0)

\* floor(x / 2^n), and whether bits were lost (sticky)
bnShr(x, n) ==
    LET w    == IF n \div 15 < Len(x) THEN n \div 15 ELSE Len(x)
        d    == bnDiv(SubSeq(x, w + 1, Len(x)), Pow2(n % 15), Len(x) - w, 0)
    IN  [q      |-> Tail(d),
         sticky |-> d[1] # 0 \/ \E i \in 1..w : x[i] # 0]

\* x rounded to 53 significant bits, ties to even; sticky tells that x is the
\* floor of a number that is not whole
round53(x, sticky) ==
    IF bnBits(x) <= 53 THEN x
    ELSE LET sh   == bnBits(x) - 53
             top  == bnShr(x, sh - 1)          \* 54 bits: the last is the round bit
             half == bnDiv(top.q, 2, Len(top.q), 0)
             q    == Tail(half)
             up   == half[1] = 1 /\ (top.sticky \/ sticky \/ q[1] % 2 = 1)
         IN  bnShl(IF up THEN bnAdd(q, <<1>>, 1, 1, 0) ELSE q, sh)

\* x / 10^k, floored, with the sticky flag
RECURSIVE bnDivPow10(_, _, _)
bnDivPow10(x, k, sticky) ==
    IF k = 0 THEN [q |-> x, sticky |-> sticky]
    ELSE LET d == bnDiv(x, 10, Len(x), 0)
         IN  bnDivPow10(Tail(d), k - 1, sticky \/ d[1] # 0)

\* strconv.ParseFloat(_, 64): the double nearest to mant / 10^scale
toDouble(t) ==
    LET abs == IF t.mant < 0 THEN 0 - t.mant ELSE t.mant
        d   == bnDivPow10(bnShl(<<abs % Limb, (abs \div Limb) % Limb,
                                  abs \div (Limb * Limb)>>, FracBits),
                          t.scale, FALSE)
    IN  [neg |-> t.mant < 0, mag |-> round53(d.q, d.sticky)]

\* a + b in float64
floatAdd(a, b) ==
    LET at(z, i) == IF i <= Len(z) THEN z[i] ELSE 0
        differ   == {i \in 1..(Len(a.mag) + Len(b.mag)) : at(a.mag, i) # at(b.mag, i)}
        less     == differ # {} /\ at(a.mag, SetMax(differ)) < at(b.mag, SetMax(differ))
    IN
    IF a.neg = b.neg
    THEN [neg |-> a.neg, mag |-> round53(bnAdd(a.mag, b.mag, 1, 1, 0), FALSE)]
    ELSE IF less
    THEN [neg |-> b.neg, mag |-> round53(bnAdd(b.mag, a.mag, -1, 1, 0), FALSE)]
    ELSE [neg |-> a.neg, mag |-> round53(bnAdd(a.mag, b.mag, -1, 1, 0), FALSE)]

\* the terms from the i-th on added to total, one after the other
RECURSIVE floatSum(_, _, _)
floatSum(terms, i, total) ==
    IF i > Len(terms) THEN total
    ELSE floatSum(terms, i + 1, floatAdd(total, toDouble(terms[i])))

\* math.Round(f*100) in float64: the product rounded to a double, then to
\* the nearest whole number, halves away from zero
floatHundredths(f) ==
    LET p == round53(bnMul(f.mag, 100, 1, 0), FALSE)
        q == bnShr(bnAdd(p, bnShl(<<1>>, FracBits - 1), 1, 1, 0), FracBits).q
        n == (IF Len(q) >= 1 THEN q[1] ELSE 0)
               + (IF Len(q) >= 2 THEN q[2] * Limb ELSE 0)
               + (IF Len(q) >= 3 THEN q[3] * Limb * Limb ELSE 0)
    IN  IF f.neg THEN 0 - n ELSE n

---------------------------------------------------------------------------
(* Sums and rounding *)

\* the parsed values a number was added up from, in order: a parsed value is
\* its own single term, and 0 + v is v
TermsOf(a) ==
    IF "terms" \in DOMAIN a THEN a.terms
    ELSE IF a.mant = 0 THEN <<>> ELSE <<a>>

\* totalSales += v in float64: the number keeps the exact decimal sum (mant,
\* scale) and the terms that were added, from which floatSum gives the
\* double the code holds
AddNum(a, b) ==
    LET s == IF a.scale > b.scale THEN a.scale ELSE b.scale
    IN  [nan   |-> FALSE,
         mant  |-> a.mant * Pow10(s - a.scale) + b.mant * Pow10(s - b.scale),
         scale |-> s,
         terms |-> TermsOf(a) \o TermsOf(b)]

\* round2: math.Round(f*100)/100, as a count of hundredths (halves away from
\* zero).  The double f differs from the decimal mant / 10^scale by the
\* rounding of each term, each sum and the product, less than
\* (2n+1) * 100 * 2^-22 in all for n terms below 2^31; a decimal further than
\* that from a half rounds as the double does, any other is rounded in
\* float64 itself
round2(f) ==
    IF f.scale <= 2 THEN f.mant * Pow10(2 - f.scale)
    ELSE LET q    == Pow10(f.scale - 2)
             abs  == IF f.mant < 0 THEN 0 - f.mant ELSE f.mant
             r    == (2 * abs + q) \div (2 * q)
             off  == 2 * (abs % q) - q
             dist == IF off < 0 THEN 0 - off ELSE off
             n    == Len(TermsOf(f))
         IN  IF dist > (2 * n + 1) * ((q \div 20971) + 1)
             THEN (IF f.mant < 0 THEN 0 - r ELSE r)
             ELSE floatHundredths(floatSum(TermsOf(f), 1, [neg |-> FALSE, mag |-> <<>>]))

\* rule 2 with the test nonSalesNonEmpty < 1
sparseSummaryNoneOther(r, billCol, salesCol) ==
    /\ isEffectivelyEmptyBill(Field(r, billCol))
    /\ ~toNumeric(Field(r, salesCol)).nan
    /\ Cardinality({k \in DOMAIN r :
           /\ k # salesCol
           /\ TrimSpace(r[k]) # ""
           /\ ToLower(TrimSpace(r[k])) # "nan"}) < 1

\* rule 2 of filterSummaryRows
sparseSummary(r, billCol, salesCol) ==
    /\ isEffectivelyEmptyBill(Field(r, billCol))
    /\ ~toNumeric(Field(r, salesCol)).nan
    /\ Cardinality({k \in DOMAIN r :
           /\ k # salesCol
           /\ TrimSpace(r[k]) # ""
           /\ ToLower(TrimSpace(r[k])) # "nan"}) <= 1

\* a loop that ends at its first removal
filterSummaryRowsFirstOnly(rows, billCol, salesCol) ==
    LET drop == {i \in 1..Len(rows) :
                    rowIsTotalish(rows[i]) \/ sparseSummary(rows[i], billCol, salesCol)}
    IN  split(rows, IF drop = {} THEN {} ELSE {SetMin(drop)})

filterSummaryRows(rows, billCol, salesCol) ==
    split(rows, {i \in 1..Len(rows) :
                    rowIsTotalish(rows[i]) \/ sparseSummary(rows[i], billCol, salesCol)})

\* values that differ only in case counted once
uniqueCountFolded(rows, col) ==
    Cardinality({ToLower(TrimSpace(Field(rows[i], col))) : i \in 1..Len(rows)} \ {""})

uniqueCount(rows, col) ==
    Cardinality({TrimSpace(Field(rows[i], col)) : i \in 1..Len(rows)} \ {""})

\* totalSales += v without the test: NaN stays NaN in every later sum
addSaleUnchecked(total, v) == IF total.nan \/ v.nan THEN NaN ELSE AddNum(total, v)

\* if !math.IsNaN(v) { totalSales += v }
addSale(total, v) == IF v.nan THEN total ELSE AddNum(total, v)

RECURSIVE sumSales(_, _, _, _)
sumSales(used, salesCol, i, total) ==
    IF i > Len(used) THEN total
    ELSE sumSales(used, salesCol, i + 1,
                  addSale(total, toNumeric(Field(used[i], salesCol))))

NoMetrics == [total_sales |-> 0, bill_row_count |-> 0, unique_bill_count |-> 0]
NoCleaning == [dropped_blank_rows |-> 0, dropped_totalish_second_col |-> 0,
               dropped_summary_rows |-> 0, final_rows_used |-> 0]

\* lines 109-127 of UploadAnalyze: the rows with a bill, and the metrics
measure(droppedBlank, droppedSecond, droppedSummary, used, salesCol, billCol) ==
    [used           |-> used,
     droppedBlank   |-> droppedBlank,
     droppedSecond  |-> droppedSecond,
     droppedSummary |-> droppedSummary,
     totalSales     |-> sumSales(used, salesCol, 1, Num(0, 0)),
     billRowsCount  |-> Len(used),
     uniqueBill     |-> uniqueCount(used, billCol)]

withBill(rows, billCol) ==
    LET hasBill(r) == ~isEffectivelyEmptyBill(Field(r, billCol))
    IN  SelectSeq(rows, hasBill)

\* lines 106-115
cleanSummary(droppedBlank, droppedSecond, summary, salesCol, billCol) ==
    measure(droppedBlank, droppedSecond, Cardinality(summary.removed),
            withBill(summary.kept, billCol), salesCol, billCol)

\* lines 103-107
cleanSecond(droppedBlank, second, salesCol, billCol) ==
    cleanSummary(droppedBlank, Cardinality(second.removed),
                 filterSummaryRows(second.kept, billCol, salesCol), salesCol, billCol)

\* a second-column stage that counts its rows and lets them through
cleanBlankKeepsSecond(preRows, noBlank, headers, salesCol, billCol) ==
    cleanSecond(preRows - Len(noBlank),
                [kept    |-> noBlank,
                 removed |-> dropIfSecondColumnTotalish(noBlank, headers).removed],
                salesCol, billCol)

\* lines 100-104
cleanBlank(preRows, noBlank, headers, salesCol, billCol) ==
    cleanSecond(preRows - Len(noBlank), dropIfSecondColumnTotalish(noBlank, headers),
                salesCol, billCol)

\* lines 98-127 of UploadAnalyze: the cleaning pipeline over the records
cleanRecords(records, headers, salesCol, billCol) ==
    cleanBlank(Len(records), dropBlankRows(records), headers, salesCol, billCol)

\* lines 95-127 of UploadAnalyze: records, cleaning, metrics
cleanAndMeasure(allRows, headerRowIdx, headers, salesCol, billCol) ==
    cleanRecords(buildRecords(allRows, headerRowIdx, headers), headers, salesCol, billCol)

---------------------------------------------------------------------------
(* File reading, preview, signature *)

\* filepath.Ext: from the last '.' of the name on, "" when there is none
Ext(name) ==
    LET dots == {i \in 1..Len(name) : CharAt(name, i) = "."}
    IN  IF dots = {} THEN "" ELSE SubSeq(name, SetMax(dots), Len(name))

\* readAllRows: a file is known by the rows its reader yields, or by the
\* reader's failure (malformed CSV quoting, not a workbook).  isNil tells
\* whether the slice returned is nil: csv.ReadAll returns nil for a file
\* without records, the workbook branch starts from [][]string{}, and every
\* error returns nil.  nilRows are the rows (1-based) that are nil slices:
\* a record of csv.ReadAll has at least one field, and rs.Columns() returns
\* the nil slice for a sheet row without cells
readAllRows(file, ext) ==
    IF ext \in {".csv", ".xlsx", ".xls"}
    THEN IF file.parses
         THEN [err |-> "", rows |-> file.rows,
               isNil |-> ext = ".csv" /\ Len(file.rows) = 0,
               nilRows |-> {i \in 1..Len(file.rows) :
                               ext # ".csv" /\ Len(file.rows[i]) = 0}]
         ELSE [err |-> "parse error", rows |-> <<>>, isNil |-> TRUE, nilRows |-> {}]
    ELSE [err |-> "unexpected EOF", rows |-> <<>>, isNil |-> TRUE, nilRows |-> {}]

\* the parts from the i-th on, sep between them
RECURSIVE JoinFrom(_, _, _)
JoinFrom(parts, sep, i) ==
    IF i > Len(parts) THEN ""
    ELSE parts[i] \o (IF i < Len(parts) THEN sep ELSE "") \o JoinFrom(parts, sep, i + 1)

\* encoding/json, one character of a string (HTML escaping is on in
\* json.Marshal): \" \\ \n \r \t \b \f, \u00XX for the other control
\* characters and for < > &, every other character as it is
jsonChar(c) ==
    IF c = "\"" THEN "\\\""
    ELSE IF c = "\\" THEN "\\\\"
    ELSE IF c = "\n" THEN "\\n"
    ELSE IF c = "\r" THEN "\\r"
    ELSE IF c = "\t" THEN "\\t"
    ELSE IF c = "\f" THEN "\\f"
    ELSE IF c = "<" THEN "\\u003c"
    ELSE IF c = ">" THEN "\\u003e"
    ELSE IF c = "&" THEN "\\u0026"
    ELSE IF CodeOf[c] = 8 THEN "\\b"
    ELSE IF CodeOf[c] < 32
    THEN "\\u00" \o CharAt("0123456789abcdef", (CodeOf[c] \div 16) + 1)
                  \o CharAt("0123456789abcdef", (CodeOf[c] % 16) + 1)
    ELSE c

\* json.Marshal of a [][]string: null for a nil slice, the grid (isNil) or
\* one of its rows (those at the 1-based indices nilRows), else arrays of
\* quoted strings
jsonMarshal(rows, isNil, nilRows) ==
    LET cell(c) == "\"" \o JoinFrom([k \in 1..Len(c) |-> jsonChar(CharAt(c, k))], "", 1)
                        \o "\""
        row(i)  == IF i \in nilRows THEN "null"
                   ELSE "[" \o JoinFrom([j \in 1..Len(rows[i]) |-> cell(rows[i][j])], ",", 1)
                            \o "]"
    IN  IF isNil THEN "null"
        ELSE "[" \o JoinFrom([i \in 1..Len(rows) |-> row(i)], ",", 1) \o "]"

\* hex(sha256(json)): the digest stands for the text it was computed from
\* (no two texts of the model share a digest); isNil and nilRows as in
\* readAllRows, firstNRows returning a nil slice and the rows as they are
signatureForPreview(preview, isNil, nilRows) ==
    "sha256:" \o jsonMarshal(preview, isNil, nilRows)

---------------------------------------------------------------------------
(* Detection cascade *)

Detection(hr, sc, bc, used, msg) ==
    [headerRowIdx |-> hr, sales |-> sc, bill |-> bc, aiUsed |-> used, aiMsg |-> msg]

\* a SELECT by signature alone (no user_id in the WHERE clause)
cacheRowsAnyUser(table, userID, signature) ==
    {m \in table : m.signature = signature}

\* the SELECT of cachedMappingOrDetect: the rows of column_mappings for the key
cacheRows(table, userID, signature) ==
    {m \in table : m.user_id = userID /\ m.signature = signature}

\* detectHeaderAndColumns; reply is what the generative model call yields:
\* kind "client_error" (NewClient fails), "generate_error" (GenerateContent
\* fails or has no candidates), "empty" (no text), "bad_json" (text that is
\* not the JSON object), "json" (the object, decoded into out)
detectHeaderAndColumns(config, preview, reply) ==
    IF ~config.GeminiAPIKey
    THEN Detection(-1, "", "", FALSE, "Gemini API key not configured")
    ELSE IF reply.kind = "client_error"
    THEN Detection(-1, "", "", FALSE, "Gemini client error")
    ELSE IF reply.kind = "generate_error"
    THEN Detection(-1, "", "", FALSE, "Gemini generate error")
    ELSE IF reply.kind = "empty"
    THEN Detection(-1, "", "", TRUE, "Gemini returned empty")
    ELSE IF reply.kind = "bad_json"
    THEN Detection(-1, "", "", TRUE, "Gemini JSON parse error")
    ELSE Detection(reply.header_row_index, TrimSpace(reply.sales_column),
                   TrimSpace(reply.bill_column), TRUE, "ok")

\* ON CONFLICT (user_id, signature) DO UPDATE SET header_row, bill_column:
\* the sales column of the row that was there stays
upsertKeepsSales(table, userID, signature, headerRowIdx, salesCol, billCol) ==
    (table \ cacheRows(table, userID, signature))
        \cup {[user_id |-> userID, signature |-> signature,
               header_row |-> headerRowIdx,
               sales_column |-> IF cacheRows(table, userID, signature) = {}
                                THEN salesCol
                                ELSE (CHOOSE m \in cacheRows(table, userID, signature) :
                                          TRUE).sales_column,
               bill_column |-> billCol]}

\* the header row stored as a 1-based index
upsertOneBased(table, userID, signature, headerRowIdx, salesCol, billCol) ==
    (table \ cacheRows(table, userID, signature))
        \cup {[user_id |-> userID, signature |-> signature,
               header_row |-> headerRowIdx + 1,
               sales_column |-> salesCol, bill_column |-> billCol]}

\* the upsert of UploadAnalyze: INSERT ... ON CONFLICT (user_id, signature)
\* DO UPDATE SET header_row, sales_column, bill_column
upsertMapping(table, userID, signature, headerRowIdx, salesCol, billCol) ==
    (table \ cacheRows(table, userID, signature))
        \cup {[user_id |-> userID, signature |-> signature,
               header_row |-> headerRowIdx,
               sales_column |-> salesCol, bill_column |-> billCol]}

\* lines 95-136 and the response fields, once both columns are matched
resolved(m, headers, salesCol, billCol, clean) ==
    [fallback        |-> m.fallback,
     headerRowIdx    |-> m.headerRowIdx,
     salesHeaderText |-> m.sales,
     billHeaderText  |-> m.bill,
     headers         |-> headers,
     salesCol        |-> salesCol,
     billCol         |-> billCol,
     error           |-> "",
     metrics         |-> [total_sales       |-> round2(clean.totalSales),
                          bill_row_count    |-> clean.billRowsCount,
                          unique_bill_count |-> clean.uniqueBill],
     cleaning        |-> [dropped_blank_rows          |-> clean.droppedBlank,
                          dropped_totalish_second_col |-> clean.droppedSecond,
                          dropped_summary_rows        |-> clean.droppedSummary,
                          final_rows_used             |-> clean.billRowsCount]]

\* an error exit of lines 70-93
rejected(m, headers, error) ==
    [fallback        |-> m.fallback,
     headerRowIdx    |-> m.headerRowIdx,
     salesHeaderText |-> m.sales,
     billHeaderText  |-> m.bill,
     headers         |-> headers,
     salesCol        |-> "",
     billCol         |-> "",
     error           |-> error,
     metrics         |-> NoMetrics,
     cleaning        |-> NoCleaning]

\* the test of line 85 on the bill column alone
afterMatchBillOnly(allRows, m, headers, salesCol, billCol) ==
    IF billCol = ""
    THEN [rejected(m, headers, "could not match detected columns")
             EXCEPT !.salesCol = salesCol, !.billCol = billCol]
    ELSE resolved(m, headers, salesCol, billCol,
                  cleanAndMeasure(allRows, m.headerRowIdx, headers, salesCol, billCol))

\* lines 85-136
afterMatch(allRows, m, headers, salesCol, billCol) ==
    IF salesCol = "" \/ billCol = ""
    THEN [rejected(m, headers, "could not match detected columns")
             EXCEPT !.salesCol = salesCol, !.billCol = billCol]
    ELSE resolved(m, headers, salesCol, billCol,
                  cleanAndMeasure(allRows, m.headerRowIdx, headers, salesCol, billCol))

\* lines 77-84
afterHeaders(allRows, m, headers) ==
    IF Len(headers) = 0 THEN rejected(m, <<>>, "empty header row")
    ELSE afterMatch(allRows, m, headers,
                    findColumn(headers, m.sales), findColumn(headers, m.bill))

\* lines 70-76
afterDetection(allRows, m) ==
    IF m.headerRowIdx < 0 THEN rejected(m, <<>>, "could not detect header row")
    ELSE afterHeaders(allRows, m, normalizeHeaders(allRows, m.headerRowIdx))

\* lines 66-69: the heuristic replaces the detection when it lacks a part
Mapping(fallback, hr, sc, bc) ==
    [fallback |-> fallback, headerRowIdx |-> hr, sales |-> sc, bill |-> bc]

fromHeuristic(h) == Mapping(TRUE, h.headerIdx, h.sales, h.bill)

\* a fallback taken only for a missing header row index
needsFallbackIndexOnly(det) == det.headerRowIdx < 0

needsFallback(det) == det.headerRowIdx < 0 \/ det.sales = "" \/ det.bill = ""

\* a fallback that keeps a header row index the detection did propose
chooseMappingKeepsRow(allRows, det) ==
    IF needsFallback(det)
    THEN IF det.headerRowIdx >= 0
         THEN [fromHeuristic(heuristicDetect(allRows))
                  EXCEPT !.headerRowIdx = det.headerRowIdx]
         ELSE fromHeuristic(heuristicDetect(allRows))
    ELSE Mapping(FALSE, det.headerRowIdx, det.sales, det.bill)

chooseMapping(allRows, det) ==
    IF needsFallback(det)
    THEN fromHeuristic(heuristicDetect(allRows))
    ELSE Mapping(FALSE, det.headerRowIdx, det.sales, det.bill)

\* lines 66-136 of UploadAnalyze, from the detection result det on: the
\* heuristic fallback, the header row, column matching, cleaning and metrics
resolveUpload(allRows, det) == afterDetection(allRows, chooseMapping(allRows, det))

---------------------------------------------------------------------------
(* Inputs *)

\* all sequences over S of length lo..hi
SeqsOf(S, lo, hi) == UNION {[1..n -> S] : n \in lo..hi}

NoProbe == [fn |-> "none"]

\* the header row and the data rows of the grids that are cleaned
CleanHeader == <<"Date", "Bill No", "Amount">>
CleanGrids(n) ==
    {<<CleanHeader>> \o g :
        g \in SeqsOf({<<"1/1", "B1", "100">>,
                      <<"1/2", "Total", "50">>,
                      <<"1/3", " b1", "200.50">>,
                      <<"", " ", "">>,
                      <<"", "NA", "500">>,
                      <<"Totl", "B3", "5">>,
                      <<"1/4", "B1", "abc">>,
                      <<"1/5", "0", "7">>,
                      <<"1/6", "B4">>,
                      <<"1/7", "B5", "--">>,
                      <<"NaN", "-", "9">>,
                      <<"totál", "B6", "7">>}, 0, n)}

\* the matched sales and bill columns
CleanMappings ==
    {[sales |-> "Amount", bill |-> "Bill No"], [sales |-> "Amount", bill |-> "Date"]}

\* grids for buildRecords: lines above the header row, a header row, and
\* data rows that are shorter and longer than it
RecordGrids(n) ==
    {[rows |-> t \o <<h>> \o d, headerIdx |-> Len(t)] :
        t \in {<<>>, <<<<"Report">>>>},
        h \in {<<"Bill", "Amount">>, <<" Bill ", "", "Amount">>,
               <<"Bill", "Amount", "Amount">>, <<"", "Col0">>},
        d \in SeqsOf({<<"B1", " 10 ">>, <<" B2">>, <<"B3", "30", "x", "y">>, <<>>},
                     0, n)}

---------------------------------------------------------------------------
(* Uploads: users, files and model replies *)

Procs == 1..NProcs

Users == {1, 2}

\* an upload: form "ok" (the multipart field "file" is there and readable),
\* "missing" (FormFile fails) or "unreadable" (io.ReadAll fails); parses tells
\* whether the reader of its format accepts the content, rows what it yields
File(name, parses, rows) ==
    [form |-> "ok", name |-> name, parses |-> parses, rows |-> rows]

LongHead ==
    <<<<"Bill", "Sales", "Amount">>,
      <<"B1", "10", "11">>,
      <<"", "", "">>,
      <<"B2", "20", "21">>,
      <<"", "", "">>>>

\* two layouts that agree on their first five rows
LongA == File("long-a.csv", TRUE, Append(LongHead, <<"B4", "40", "41">>))
LongB == File("long-b.csv", TRUE, Append(LongHead, <<"Grand Total", "105", "110">>))

\* a title line above the header row
Titled ==
    File("titled.xlsx", TRUE,
         <<<<"Sales Report">>, <<"Invoice No.", "Net Amt (Rs)", "Qty">>,
           <<"I1", "10", "1">>, <<"", "10", "">>>>)

\* a total line among the bills, its word in the second column
Dated ==
    File("dated.csv", TRUE,
         <<<<"Date", "Bill No", "Amount">>, <<"1/1", "B1", "100">>,
           <<"1/2", "Total", "50">>, <<"1/3", "B2", "200">>>>)

SharedFiles == {LongA, LongB}
AllFiles ==
    {LongA, LongB, Titled, Dated,
     \* a sale of 1.005, which is no double
     File("plain.CSV", TRUE,
          <<<<"Bill No.", "Amount (Rs)">>, <<"B1", "100">>, <<"b1", "200.50">>,
            <<"", "">>, <<"B2", "1.005">>, <<"Total", "301.505">>>>),
     \* the header row below a blank fifth row
     File("late.xls", TRUE,
          <<<<"1">>, <<"2">>, <<"3">>, <<"4">>, <<"">>,
            <<"Bill", "Sales">>, <<"B1", "5">>>>),
     \* two columns of one name
     File("twice.csv", TRUE,
          <<<<"Bill", "Amount", "Amount">>, <<"B1", "10", "20">>>>),
     \* one header that names both the bill and the amount
     File("merged.csv", TRUE, <<<<"Invoice Amount", "Qty">>, <<"100", "2">>>>),
     \* no row: a CSV file without records, a workbook whose first sheet is empty
     File("empty.csv", TRUE, <<>>),
     File("empty.xlsx", TRUE, <<>>),
     File("blank.csv", TRUE, <<<<"">>, <<"", " ">>>>),
     File("nocells.xlsx", TRUE, <<<<>>, <<"Name", "City">>, <<"Bill", "7">>>>),
     \* files that are not read: extension, content, form field, body
     File("report.pdf", TRUE, <<>>),
     File("broken.csv", FALSE, <<>>),
     [File("", FALSE, <<>>) EXCEPT !.form = "missing"],
     [File("cut.csv", FALSE, <<>>) EXCEPT !.form = "unreadable"]}

Failure(kind) ==
    [kind |-> kind, header_row_index |-> 0, sales_column |-> "", bill_column |-> ""]
Json(hr, sc, bc) ==
    [kind |-> "json", header_row_index |-> hr, sales_column |-> sc, bill_column |-> bc]

SharedReplies == {Failure("generate_error"), Json(0, "Amount", "Bill")}
AllReplies ==
    {Failure("client_error"), Failure("generate_error"), Failure("empty"),
     Failure("bad_json"),
     Json(0, "Amount", "Bill"),
     Json(1, " net amt ", "Invoice"),
     Json(-1, "Amount", "Bill"),
     Json(0, "Sales", ""),
     Json(7, "Sales", "Bill"),
     Json(0, "Qty", "Bill")}

---------------------------------------------------------------------------
(* A request's position in UploadAnalyze and its locals *)

NoFile == File("", FALSE, <<>>)
NoDetection == Detection(-1, "", "", FALSE, "")

IdleReq ==
    [pc |-> "idle", user |-> 0, file |-> NoFile, sig |-> "",
     prior |-> FALSE, hit |-> FALSE, strategies |-> <<>>, writes |-> 0,
     det |-> NoDetection,
     headerRowIdx |-> -1, salesHeaderText |-> "", billHeaderText |-> "",
     headers |-> <<>>, salesCol |-> "", billCol |-> "",
     metrics |-> NoMetrics, cleaning |-> NoCleaning,
     status |-> 0, error |-> ""]

\* c.JSON(http.StatusBadRequest, gin.H{"error": msg}); return
Abort(r, msg) == [r EXCEPT !.pc = "done", !.status = 400, !.error = msg]

\* the SELECT of cachedMappingOrDetect and its result
lookedUp(r, hit) ==
    IF r.sig # "" /\ hit # {}
    THEN [r EXCEPT !.pc = "resolve", !.hit = TRUE,
                   !.det = Detection((CHOOSE m \in hit : TRUE).header_row,
                                     (CHOOSE m \in hit : TRUE).sales_column,
                                     (CHOOSE m \in hit : TRUE).bill_column,
                                     FALSE, "cache")]
    ELSE [r EXCEPT !.pc = "detect"]

\* lines 64-65: signature, cache lookup
signed(r, sig, table) ==
    lookedUp([r EXCEPT !.sig = sig, !.strategies = <<"cache">>],
             cacheRows(table, r.user, sig))

\* lines 60-65: the preview; prior records whether this user has completed
\* an upload with this preview before
previewed(r, preview, isNil, nilRows, table, done) ==
    signed([r EXCEPT !.prior = <<r.user, preview>> \in done],
           signatureForPreview(preview, isNil, nilRows), table)

\* lines 55-59
parsed(r, read, table, done) ==
    IF read.err # "" THEN Abort(r, read.err)
    ELSE previewed(r, firstNRows(read.rows, PreviewRows), read.isNil, read.nilRows,
                   table, done)

\* lines 48-55
opened(r, ext, table, done) ==
    IF ext \notin {".csv", ".xlsx", ".xls"}
    THEN Abort(r, "unsupported file type; use .csv or .xlsx/.xls")
    ELSE parsed(r, readAllRows(r.file, ext), table, done)

\* lines 33-48
accepted(r, table, done) ==
    IF r.file.form = "missing" THEN Abort(r, "missing file (field 'file')")
    ELSE IF r.file.form = "unreadable" THEN Abort(r, "failed to read file")
    ELSE opened(r, ToLower(Ext(r.file.name)), table, done)

\* lines 33-65 up to the cache SELECT of cachedMappingOrDetect.  The SELECT
\* runs under a timeout of 3 s and its error is not told from "no row"
\* (if err == nil): seen is the table when the statement is executed, no row
\* when it fails
Receive(p, users, files) ==
    /\ reqs[p].pc = "idle"
    /\ \A q \in 1..(p - 1) : reqs[q].pc # "idle"   \* slots are alike: take the first free one
    /\ received < MaxUploads
    /\ received' = received + 1
    /\ \E u \in users, f \in files, seen \in {column_mappings, {}} :
         reqs' = [reqs EXCEPT ![p] =
                     accepted([IdleReq EXCEPT !.user = u, !.file = f],
                              seen, completed)]
    /\ UNCHANGED <<column_mappings, sales_metrics, cfg, others, completed, probe>>

\* cachedMappingOrDetect after a miss: detectHeaderAndColumns
Detect(p, replies) ==
    /\ reqs[p].pc = "detect"
    /\ \E reply \in replies :
         reqs' = [reqs EXCEPT ![p] =
             [@ EXCEPT !.pc = "resolve",
                       !.strategies = Append(@, "model"),
                       !.det = detectHeaderAndColumns(
                                   cfg, firstNRows(reqs[p].file.rows, PreviewRows), reply)]]
    /\ UNCHANGED <<column_mappings, sales_metrics, cfg, received, others, completed, probe>>

\* the locals after lines 66-136
settled(r, out) ==
    [r EXCEPT !.pc = IF out.error # "" THEN "done" ELSE "insert",
              !.status = IF out.error # "" THEN 400 ELSE 0,
              !.error = out.error,
              !.strategies = IF out.fallback THEN Append(@, "heuristic") ELSE @,
              !.headerRowIdx = out.headerRowIdx,
              !.salesHeaderText = out.salesHeaderText,
              !.billHeaderText = out.billHeaderText,
              !.headers = out.headers,
              !.salesCol = out.salesCol,
              !.billCol = out.billCol,
              !.metrics = out.metrics,
              !.cleaning = out.cleaning]

\* lines 66-136: fallback, header, column matching, cleaning, metrics
Resolve(p) ==
    /\ reqs[p].pc = "resolve"
    /\ reqs' = [reqs EXCEPT ![p] =
                   settled(reqs[p], resolveUpload(reqs[p].file.rows, reqs[p].det))]
    /\ UNCHANGED <<column_mappings, sales_metrics, cfg, received, others, completed, probe>>

\* line 147: INSERT INTO sales_metrics.  Exec runs under the context of
\* line 145 (10 s) and its error is dropped (_, _ =): the handler goes on
\* whether the row was written (ok) or not
InsertMetrics(p) ==
    /\ reqs[p].pc = "insert"
    /\ \E ok \in BOOLEAN :
         /\ sales_metrics' =
               IF ok
               THEN Append(sales_metrics,
                      [user_id           |-> reqs[p].user,
                       source_type       |-> "file",
                       payload           |-> [file_name |-> reqs[p].file.name,
                                              headers   |-> reqs[p].headers],
                       total_sales       |-> reqs[p].metrics.total_sales,
                       bill_row_count    |-> reqs[p].metrics.bill_row_count,
                       unique_bill_count |-> reqs[p].metrics.unique_bill_count])
               ELSE sales_metrics
         /\ reqs' = [reqs EXCEPT ![p].pc = "upsert",
                                 ![p].writes = IF ok THEN @ + 1 ELSE @]
    /\ UNCHANGED <<column_mappings, cfg, received, others, completed, probe>>

\* lines 149-152: the column_mappings upsert, under the same context and
\* with its error dropped as well
UpsertMapping(p) ==
    /\ reqs[p].pc = "upsert"
    /\ \E ok \in BOOLEAN :
         /\ column_mappings' =
               IF ok
               THEN upsertMapping(column_mappings, reqs[p].user, reqs[p].sig,
                                  reqs[p].headerRowIdx, reqs[p].salesCol, reqs[p].billCol)
               ELSE column_mappings
         /\ reqs' = [reqs EXCEPT ![p].pc = "respond",
                                 ![p].writes = IF ok THEN @ + 1 ELSE @]
    /\ UNCHANGED <<sales_metrics, cfg, received, others, completed, probe>>

\* lines 153-192: the optional index of the summary (a call to the
\* embedding service and an INSERT INTO rag_documents, neither of which
\* touches the two tables), then the 200 response
Respond(p) ==
    /\ reqs[p].pc = "respond"
    /\ reqs' = [reqs EXCEPT ![p].pc = "done", ![p].status = 200]
    /\ completed' =
           completed \cup {<<reqs[p].user, firstNRows(reqs[p].file.rows, PreviewRows)>>}
    /\ UNCHANGED <<column_mappings, sales_metrics, cfg, received, others, probe>>

\* IngestSalesText (POST data/sales-text): INSERT INTO sales_metrics with
\* source_type 'text' and the metrics of the request (here total_sales 500,
\* in hundredths, bill_row_count 3, unique_bill_count 3, no text); on an
\* error of the statement the handler answers 500 and no row is written
IngestSalesText(users) ==
    /\ others < MaxOthers
    /\ \E u \in users, ok \in BOOLEAN :
      /\ others' = IF ok THEN others + 1 ELSE others
      /\ sales_metrics' =
             IF ok
             THEN Append(sales_metrics,
                    [user_id           |-> u,
                     source_type       |-> "text",
                     payload           |-> [source |-> "text", raw_text |-> ""],
                     total_sales       |-> 50000,
                     bill_row_count    |-> 3,
                     unique_bill_count |-> 3])
             ELSE sales_metrics
    /\ UNCHANGED <<reqs, column_mappings, cfg, received, completed, probe>>

\* ChatSend with an attached sheet that processSalesHeuristic or
\* processSalesWithAI takes for a sales file: INSERT INTO sales_metrics with
\* source_type 'file', error dropped; column_mappings is neither read nor
\* written
ChatSend(users) ==
    /\ others < MaxOthers
    /\ \E u \in users, ok \in BOOLEAN :
      /\ others' = IF ok THEN others + 1 ELSE others
      /\ sales_metrics' =
             IF ok
             THEN Append(sales_metrics,
                    [user_id           |-> u,
                     source_type       |-> "file",
                     payload           |-> [file_name |-> "chat.csv",
                                            headers   |-> <<"Bill", "Amount">>],
                     total_sales       |-> 10000,
                     bill_row_count    |-> 1,
                     unique_bill_count |-> 1])
             ELSE sales_metrics
    /\ UNCHANGED <<reqs, column_mappings, cfg, received, completed, probe>>

\* the handler has returned; the slot takes the next upload
Return(p) ==
    /\ reqs[p].pc = "done"
    /\ reqs' = [reqs EXCEPT ![p] = IdleReq]
    /\ UNCHANGED <<column_mappings, sales_metrics, cfg, received, others, completed, probe>>

Init ==
    /\ reqs = [p \in Procs |-> IdleReq]
    /\ column_mappings = {}
    /\ sales_metrics = <<>>
    /\ cfg \in {[GeminiAPIKey |-> FALSE], [GeminiAPIKey |-> TRUE]}
    /\ received = 0
    /\ others = 0
    /\ completed = {}
    /\ probe = NoProbe

\* concurrent uploads of the two layouts that share a preview; the requests
\* to the other handlers come from user 1 (no upload reads sales_metrics)
Next ==
    \/ \E p \in Procs :
          \/ Receive(p, Users, SharedFiles)
          \/ Detect(p, SharedReplies)
          \/ Resolve(p)
          \/ InsertMetrics(p)
          \/ UpsertMapping(p)
          \/ Respond(p)
          \/ Return(p)
    \/ IngestSalesText({1})
    \/ ChatSend({1})

Spec == Init /\ [][Next]_vars

\* one upload after the other, over every file and every model reply
NextSerial ==
    \/ Receive(1, Users, AllFiles)
    \/ Detect(1, AllReplies)
    \/ Resolve(1)
    \/ InsertMetrics(1)
    \/ UpsertMapping(1)
    \/ Respond(1)
    \/ Return(1)
    \/ IngestSalesText({1})
    \/ ChatSend({1})

SpecSerial == Init /\ [][NextSerial]_vars

---------------------------------------------------------------------------
(* heuristicDetect on its own *)

InitScan ==
    /\ reqs = [p \in Procs |-> IdleReq]
    /\ column_mappings = {}
    /\ sales_metrics = <<>>
    /\ cfg = [GeminiAPIKey |-> FALSE]
    /\ received = 0
    /\ others = 0
    /\ completed = {}
    \* grids of up to MaxRows rows; the rows by alpha ratio: none (blank),
    \* 1/3, 1/2, 2/3, 1
    /\ \E g \in SeqsOf({<<"", " ">>,
                         <<"Amt", "7", "8">>,
                         <<"Bill", "7">>,
                         <<"Bill No", "Amount", "7">>,
                         <<"Invoice", "Sales">>}, 0, MaxRows) :
           probe = [fn |-> "heuristicDetect", rows |-> g, returned |-> FALSE]

CallHeuristicDetect ==
    /\ probe.fn = "heuristicDetect"
    /\ ~probe.returned
    /\ probe' = [fn |-> "heuristicDetect", rows |-> probe.rows, returned |-> TRUE,
                 out |-> heuristicDetect(probe.rows)]
    /\ UNCHANGED <<reqs, column_mappings, sales_metrics, cfg, received, others, completed>>

SpecScan == InitScan /\ [][CallHeuristicDetect]_vars

---------------------------------------------------------------------------
(* pickColumn and findColumn on their own, over normalized header rows *)

InitColumns ==
    /\ reqs = [p \in Procs |-> IdleReq]
    /\ column_mappings = {}
    /\ sales_metrics = <<>>
    /\ cfg = [GeminiAPIKey |-> FALSE]
    /\ received = 0
    /\ others = 0
    /\ completed = {}
    \* raw header rows of up to MaxCols cells
    /\ \E raw \in SeqsOf({"", " Amount", "SALES ", "Net Sales", "bill", "Invoice No",
                            "CAFÉ"}, 0, MaxCols) :
         \/ \E kw \in {salesKeywords, billKeywords} :
              probe = [fn |-> "pickColumn", headers |-> normalizeHeaders(<<raw>>, 0),
                       keywords |-> kw, returned |-> FALSE]
         \/ \E t \in {"", " sales ", "Amount", "no", "Qty", "col0", "café"} :
              /\ Len(raw) > 0
              /\ probe = [fn |-> "findColumn", headers |-> normalizeHeaders(<<raw>>, 0),
                          target |-> t, returned |-> FALSE]

CallPickColumn ==
    /\ probe.fn = "pickColumn"
    /\ ~probe.returned
    /\ probe' = [probe EXCEPT !.returned = TRUE] @@
                 [out |-> pickColumn(probe.headers, probe.keywords)]
    /\ UNCHANGED <<reqs, column_mappings, sales_metrics, cfg, received, others, completed>>

CallFindColumn ==
    /\ probe.fn = "findColumn"
    /\ ~probe.returned
    /\ probe' = [probe EXCEPT !.returned = TRUE] @@
                 [out |-> findColumn(probe.headers, probe.target)]
    /\ UNCHANGED <<reqs, column_mappings, sales_metrics, cfg, received, others, completed>>

NextColumns == CallPickColumn \/ CallFindColumn

SpecColumns == InitColumns /\ [][NextColumns]_vars

---------------------------------------------------------------------------
(* The cleaning pipeline on its own, over grids with a known header row *)

InitClean ==
    /\ reqs = [p \in Procs |-> IdleReq]
    /\ column_mappings = {}
    /\ sales_metrics = <<>>
    /\ cfg = [GeminiAPIKey |-> FALSE]
    /\ received = 0
    /\ others = 0
    /\ completed = {}
    /\ \E g \in CleanGrids(MaxRecords), m \in CleanMappings,
          fn \in {"cleanAndMeasure", "filterSummaryRows"} :
         probe = [fn |-> fn, rows |-> g, headers |-> normalizeHeaders(g, 0),
                  salesCol |-> m.sales, billCol |-> m.bill, returned |-> FALSE]

\* the pipeline, and the pipeline once more on the rows it has kept
cleanedTwice(first, headers, salesCol, billCol) ==
    [out |-> first, again |-> cleanRecords(first.used, headers, salesCol, billCol)]

CallCleanAndMeasure ==
    /\ probe.fn = "cleanAndMeasure"
    /\ ~probe.returned
    /\ probe' = [probe EXCEPT !.returned = TRUE] @@
                 cleanedTwice(cleanAndMeasure(probe.rows, 0, probe.headers,
                                              probe.salesCol, probe.billCol),
                              probe.headers, probe.salesCol, probe.billCol)
    /\ UNCHANGED <<reqs, column_mappings, sales_metrics, cfg, received, others, completed>>

\* filterSummaryRows on the records that reach it
summaryStage(given, salesCol, billCol) ==
    [given |-> given, out |-> filterSummaryRows(given, billCol, salesCol)]

CallFilterSummaryRows ==
    /\ probe.fn = "filterSummaryRows"
    /\ ~probe.returned
    /\ probe' = [probe EXCEPT !.returned = TRUE] @@
                 summaryStage(dropIfSecondColumnTotalish(
                                  dropBlankRows(buildRecords(probe.rows, 0, probe.headers)),
                                  probe.headers).kept,
                              probe.salesCol, probe.billCol)
    /\ UNCHANGED <<reqs, column_mappings, sales_metrics, cfg, received, others, completed>>

NextClean == CallCleanAndMeasure \/ CallFilterSummaryRows

SpecClean == InitClean /\ [][NextClean]_vars

---------------------------------------------------------------------------
(* looksLikeTotalWord on its own *)

InitTotal ==
    /\ reqs = [p \in Procs |-> IdleReq]
    /\ column_mappings = {}
    /\ sales_metrics = <<>>
    /\ cfg = [GeminiAPIKey |-> FALSE]
    /\ received = 0
    /\ others = 0
    /\ completed = {}
    \* cell texts around the word "total": what stands before, the word or
    \* a near miss of it, and what follows
    /\ \E b \in {"", " ", "x", "Grand ", "sub", "Grand  Sub", "grand", "x sub "},
          w \in {"total", "Total", "TOTALS", "Totals", "totl", "Toal", "otal", "tatal",
                 "ttl", "to tal", "", "totál", "TOTÁL", "tota¹", "totaal"},
          a \in {"", " ", " 5", " count"} :
         probe = [fn |-> "looksLikeTotalWord", cell |-> b \o w \o a, returned |-> FALSE]

CallLooksLikeTotalWord ==
    /\ probe.fn = "looksLikeTotalWord"
    /\ ~probe.returned
    /\ probe' = [probe EXCEPT !.returned = TRUE] @@
                 [out |-> looksLikeTotalWord(probe.cell)]
    /\ UNCHANGED <<reqs, column_mappings, sales_metrics, cfg, received, others, completed>>

SpecTotal == InitTotal /\ [][CallLooksLikeTotalWord]_vars

---------------------------------------------------------------------------
(* toNumeric on its own *)

InitNumeric ==
    /\ reqs = [p \in Procs |-> IdleReq]
    /\ column_mappings = {}
    /\ sales_metrics = <<>>
    /\ cfg = [GeminiAPIKey |-> FALSE]
    /\ received = 0
    /\ others = 0
    /\ completed = {}
    \* sales cell texts: a number in several spellings, with what stands
    \* before and after it
    /\ \E b \in {"", " ", "Rs. ", "Rs ", "$", "-", "- "},
          n \in {"500", "1,234.50", "12-3", "1.2.3", "", "abc", ".", "0.5", "5.", "007"},
          a \in {"", " ", "/-", "."} :
         probe = [fn |-> "toNumeric", cell |-> b \o n \o a, returned |-> FALSE]

CallToNumeric ==
    /\ probe.fn = "toNumeric"
    /\ ~probe.returned
    /\ probe' = [probe EXCEPT !.returned = TRUE] @@ [out |-> toNumeric(probe.cell)]
    /\ UNCHANGED <<reqs, column_mappings, sales_metrics, cfg, received, others, completed>>

SpecNumeric == InitNumeric /\ [][CallToNumeric]_vars

---------------------------------------------------------------------------
(* buildRecords on its own, called as UploadAnalyze calls it *)

InitRecords ==
    /\ reqs = [p \in Procs |-> IdleReq]
    /\ column_mappings = {}
    /\ sales_metrics = <<>>
    /\ cfg = [GeminiAPIKey |-> FALSE]
    /\ received = 0
    /\ others = 0
    /\ completed = {}
    /\ \E g \in RecordGrids(MaxRecords) :
         probe = [fn |-> "buildRecords", rows |-> g.rows, headerIdx |-> g.headerIdx,
                  headers |-> normalizeHeaders(g.rows, g.headerIdx),
                  returned |-> FALSE]

CallBuildRecords ==
    /\ probe.fn = "buildRecords"
    /\ ~probe.returned
    /\ probe' = [probe EXCEPT !.returned = TRUE] @@
                 [out |-> buildRecords(probe.rows, probe.headerIdx, probe.headers)]
    /\ UNCHANGED <<reqs, column_mappings, sales_metrics, cfg, received, others, completed>>

SpecRecords == InitRecords /\ [][CallBuildRecords]_vars

---------------------------------------------------------------------------
(* Properties of the detector cascade and the mapping cache *)

Elems(q) == {q[i] : i \in 1..Len(q)}

\* the request has passed the fallback decision of line 66
Decided(r) == r.pc \in {"insert", "upsert", "respond", "done"} /\ r.strategies # <<>>

\* header row index and the two names a request works with
Used(r) == <<r.headerRowIdx, r.salesHeaderText, r.billHeaderText>>

ModelFailures ==
    {"Gemini API key not configured", "Gemini client error", "Gemini generate error",
     "Gemini returned empty", "Gemini JSON parse error"}

\* C1: the strategies of an upload are tried in the order cache, model,
\* heuristic: the model only after a cache miss (and always after one), the
\* heuristic exactly when the cache/model result lacks a header row index
\* (< 0) or a column name; a failed model call yields the failure sentinel
\* and the request goes on with what the heuristic finds on the full grid.
\* (The decision is taken in one step of a request, and no later step of
\* the request changes what was decided.)
C1_CascadeOrder ==
    /\ [](\A p \in Procs :
            LET r == reqs[p]
            IN  /\ r.strategies \in {<<>>, <<"cache">>, <<"cache", "model">>,
                                      <<"cache", "heuristic">>,
                                      <<"cache", "model", "heuristic">>}
                /\ "model" \in Elems(r.strategies) => ~r.hit
                /\ "heuristic" \in Elems(r.strategies) => Decided(r)
                /\ r.pc = "resolve" => ("model" \in Elems(r.strategies) <=> ~r.hit)
                /\ Decided(r) =>
                      /\ "model" \in Elems(r.strategies) <=> ~r.hit
                      /\ "heuristic" \in Elems(r.strategies) <=>
                            (r.det.headerRowIdx < 0 \/ r.det.sales = "" \/ r.det.bill = "")
                      /\ r.det.aiMsg \in ModelFailures =>
                            /\ r.det.headerRowIdx = -1 /\ r.det.sales = "" /\ r.det.bill = ""
                            /\ r.strategies = <<"cache", "model", "heuristic">>
                            /\ r.error \notin ModelFailures)
    /\ [][\A p \in Procs :
            LET r == reqs'[p]
                h == heuristicDetect(r.file.rows)
            IN  Decided(r) =>
                  IF Decided(reqs[p])
                  THEN /\ r.file = reqs[p].file /\ r.det = reqs[p].det
                       /\ r.strategies = reqs[p].strategies
                       /\ Used(r) = Used(reqs[p])
                  ELSE r.det.aiMsg \in ModelFailures =>
                          Used(r) = <<h.headerIdx, h.sales, h.bill>>
         ]_vars

\* an upload answered 200 through the heuristic after the model's reply
\* could not be parsed
C1_Witness ==
    /\ reqs[1].pc = "done" /\ reqs[1].status = 200
    /\ reqs[1].det.aiMsg = "Gemini JSON parse error"
    /\ reqs[1].strategies = <<"cache", "model", "heuristic">>

\* C2: an upload whose user has already completed an upload with the same
\* first five rows takes its mapping from the cache (aiUsed false, aiMsg
\* "cache") and runs neither the model-assisted detector nor the heuristic.
C2_RepeatUsesCache ==
    \A p \in Procs :
        reqs[p].prior =>
            /\ reqs[p].hit
            /\ reqs[p].det.aiUsed = FALSE
            /\ reqs[p].det.aiMsg = "cache"
            /\ reqs[p].strategies = <<"cache">>
            /\ reqs[p].pc \in {"resolve", "insert", "upsert", "respond", "done"}
            /\ reqs[p].pc = "done" => reqs[p].status = 200

\* C3: the upsert step of a request that resolved its mapping leaves
\* exactly one row for the request's (user_id, signature), holding the
\* header row index and the sales and bill columns of this run, and a lookup
\* of that key right after it returns them.
C3_UpsertRoundTrip ==
    [][\A p \in Procs :
          (reqs[p].pc = "upsert" /\ reqs'[p].pc = "respond") =>
              LET r    == reqs'[p]
                  rows == {m \in column_mappings' :
                              m.user_id = r.user /\ m.signature = r.sig}
              IN  /\ rows = {[user_id |-> r.user, signature |-> r.sig,
                              header_row |-> r.headerRowIdx,
                              sales_column |-> r.salesCol,
                              bill_column |-> r.billCol]}
                  /\ lookedUp([IdleReq EXCEPT !.user = r.user, !.sig = r.sig],
                              cacheRows(column_mappings', r.user, r.sig)).det
                       = Detection(r.headerRowIdx, r.salesCol, r.billCol, FALSE, "cache")
      ]_vars

---------------------------------------------------------------------------
(* Properties of the heuristic fallback *)

\* row i (0-based) of the grid scores at least 1/2
ScoresHalf(rows, i) ==
    /\ nonEmptyCells(rows[i + 1]) > 0
    /\ 2 * alphaCells(rows[i + 1]) >= nonEmptyCells(rows[i + 1])

\* the score of row i is at most the score of row j
ScoreLeq(rows, i, j) ==
    alphaCells(rows[i + 1]) * nonEmptyCells(rows[j + 1])
        <= alphaCells(rows[j + 1]) * nonEmptyCells(rows[i + 1])

\* C4: heuristicDetect returns a header row index in 0..4 and the result it
\* would return on the first five rows alone, whatever the later rows are.
C4_FirstFiveRowsOnly ==
    (probe.fn = "heuristicDetect" /\ probe.returned) =>
        /\ probe.out.headerIdx \in 0..LastScanned
        /\ probe.out = heuristicDetect(firstNRows(probe.rows, LastScanned + 1))

\* the rows the loop of heuristicDetect reaches: it stops after the first
\* row at index 4 or later that has a non-empty cell
Examined(rows) ==
    {i \in 0..(Len(rows) - 1) :
        \A j \in LastScanned..(i - 1) : nonEmptyCells(rows[j + 1]) = 0}

\* the examined rows that score at least 1/2 and no less than any examined
\* row with a non-empty cell
BestRows(rows) ==
    {i \in Examined(rows) :
        /\ ScoresHalf(rows, i)
        /\ \A j \in Examined(rows) :
              nonEmptyCells(rows[j + 1]) > 0 => ScoreLeq(rows, j, i)}

\* C5: the header row of the heuristic is the earliest examined row whose
\* alpha ratio is at least 0.5 and is the maximum among the examined rows
\* with a non-empty cell (an equal later row does not replace it); it is row
\* 0 when no examined row reaches 0.5.
C5_EarliestBestRow ==
    (probe.fn = "heuristicDetect" /\ probe.returned) =>
        probe.out.headerIdx =
            IF BestRows(probe.rows) = {} THEN 0 ELSE SetMin(BestRows(probe.rows))

\* row 1 is chosen over row 0 of lower score and over row 2 of equal score
C5_Witness ==
    /\ probe.fn = "heuristicDetect" /\ probe.returned
    /\ Len(probe.rows) >= 3
    /\ probe.out.headerIdx = 1
    /\ ScoresHalf(probe.rows, 0)
    /\ ScoreLeq(probe.rows, 1, 2) /\ ScoreLeq(probe.rows, 2, 1)

\* the request took the heuristic after a cache miss and a failed model call
FellBack(r) ==
    /\ Decided(r) /\ ~r.hit
    /\ r.det.aiMsg \in ModelFailures
    /\ "heuristic" \in Elems(r.strategies)

\* some row of the preview scores at least 1/2
PreviewScoresHalf(rows) ==
    \E i \in 0..(Len(rows) - 1) : i < PreviewRows /\ ScoresHalf(rows, i)

\* some header contains one of the keywords, case-insensitively
Keyworded(headers, keywords) ==
    \E j \in 1..Len(headers), k \in 1..Len(keywords) :
        Contains(ToLower(headers[j]), ToLower(keywords[k]))

\* C6 as stated: after a cache miss and a failed model call the heuristic
\* yields a header row index and non-empty sales and bill column names
\* whenever some preview row has an alpha ratio of at least 0.5.
C6_BothNamesFound ==
    \A p \in Procs :
        (FellBack(reqs[p]) /\ PreviewScoresHalf(reqs[p].file.rows)) =>
            /\ reqs[p].headerRowIdx >= 0
            /\ reqs[p].salesHeaderText # ""
            /\ reqs[p].billHeaderText # ""

\* C6 amended: in that case the heuristic yields the index of a row whose
\* alpha ratio is at least 0.5, and the sales (bill) column name is
\* non-empty exactly when a header of that row contains a sales (bill)
\* keyword, and is then a header of that row.
C6_NamesWhenKeyworded ==
    \A p \in Procs :
        (FellBack(reqs[p]) /\ PreviewScoresHalf(reqs[p].file.rows)) =>
            LET r  == reqs[p]
                hs == normalizeHeaders(r.file.rows, r.headerRowIdx)
            IN  /\ r.headerRowIdx \in 0..(Len(r.file.rows) - 1)
                /\ ScoresHalf(r.file.rows, r.headerRowIdx)
                /\ r.salesHeaderText # "" <=> Keyworded(hs, salesKeywords)
                /\ r.billHeaderText # "" <=> Keyworded(hs, billKeywords)
                /\ r.salesHeaderText \in Elems(hs) \cup {""}
                /\ r.billHeaderText \in Elems(hs) \cup {""}

\* both names are found, each by a keyword its header contains
C6_Witness ==
    /\ FellBack(reqs[1])
    /\ reqs[1].file.name = "plain.CSV"
    /\ reqs[1].headerRowIdx = 0
    /\ reqs[1].salesHeaderText = "Amount (Rs)"
    /\ reqs[1].billHeaderText = "Bill No."

---------------------------------------------------------------------------
(* Properties of column matching *)

SameFold(a, b) == ToLower(a) = ToLower(b)
Inside(h, name) == Contains(ToLower(h), ToLower(name))

\* C7: pickColumn returns the first header equal (ignoring case) to the
\* earliest keyword that any header equals, wherever that header stands;
\* when no header equals a keyword, the first header containing the earliest
\* keyword that any header contains; and "" when no keyword matches.
C7_PickColumnPriority ==
    (probe.fn = "pickColumn" /\ probe.returned) =>
        LET hs     == probe.headers
            kw     == probe.keywords
            eqK    == {k \in 1..Len(kw) : \E j \in 1..Len(hs) : SameFold(hs[j], kw[k])}
            inK    == {k \in 1..Len(kw) : \E j \in 1..Len(hs) : Inside(hs[j], kw[k])}
            eqH(k) == {j \in 1..Len(hs) : SameFold(hs[j], kw[k])}
            inH(k) == {j \in 1..Len(hs) : Inside(hs[j], kw[k])}
        IN  probe.out =
                IF eqK # {} THEN hs[SetMin(eqH(SetMin(eqK)))]
                ELSE IF inK # {} THEN hs[SetMin(inH(SetMin(inK)))]
                ELSE ""

\* "SALES" is returned although "Amount", a later keyword, stands before it
C7_Witness ==
    /\ probe.fn = "pickColumn" /\ probe.returned
    /\ probe.keywords = salesKeywords
    /\ probe.headers = <<"Amount", "Net Sales", "SALES">>
    /\ probe.out = "SALES"

\* C8: findColumn returns "" or a header: the first header equal (ignoring
\* case) to the trimmed name if there is one, even behind a header that only
\* contains the name; otherwise the first header containing the name; and
\* an empty name matches no header.
C8_FindColumnMatch ==
    (probe.fn = "findColumn" /\ probe.returned) =>
        LET hs == probe.headers
            t  == TrimSpace(probe.target)
            eq == {j \in 1..Len(hs) : SameFold(hs[j], t)}
            sub == {j \in 1..Len(hs) : Inside(hs[j], t)}
        IN  /\ probe.out \in Elems(hs) \cup {""}
            /\ t = "" => probe.out = ""
            /\ probe.out =
                  IF t = "" THEN ""
                  ELSE IF eq # {} THEN hs[SetMin(eq)]
                  ELSE IF sub # {} THEN hs[SetMin(sub)]
                  ELSE ""

\* "SALES" equals the name and is returned from behind "Net Sales"
C8_Witness ==
    /\ probe.fn = "findColumn" /\ probe.returned
    /\ probe.target = " sales "
    /\ probe.headers = <<"Net Sales", "SALES">>
    /\ probe.out = "SALES"

\* no header contains the name (an empty name is in no header)
Unmatched(headers, name) ==
    \/ TrimSpace(name) = ""
    \/ \A j \in 1..Len(headers) : ~Inside(headers[j], TrimSpace(name))

\* request r is where C9 lets it be
EndsWell(r) ==
    /\ (Decided(r) /\ r.headers # <<>>
           /\ (Unmatched(r.headers, r.salesHeaderText)
                 \/ Unmatched(r.headers, r.billHeaderText))) =>
          /\ r.pc = "done" /\ r.status = 400
          /\ r.error = "could not match detected columns"
          /\ r.headers = normalizeHeaders(r.file.rows, r.headerRowIdx)
    /\ (r.pc \in {"insert", "upsert", "respond"} \/ r.status = 200) =>
          /\ r.error = ""
          /\ r.salesCol \in Elems(r.headers)
          /\ r.billCol \in Elems(r.headers)
    /\ r.status = 400 => (r.pc = "done" /\ r.error # "" /\ r.writes = 0)
    /\ r.error # "" => r.status = 400

\* C9: a request whose sales or bill name resolves to no header of a
\* non-empty header row ends with 400 "could not match detected columns",
\* the headers and both detected names; a request ends with 200 only with
\* both columns resolved; a request that ends with 400 has written
\* nothing: the only steps of an upload that change a table (or count as a
\* write) are the INSERT and the upsert of a request that has no error, and
\* the mapping cache changes in no other step at all.
C9_ErrorExitsWriteNothing ==
    [][/\ \A p \in Procs : EndsWell(reqs'[p])
       /\ \A p \in Procs :
             (reqs'[p] # reqs[p] /\ reqs[p].pc \notin {"insert", "upsert"}) =>
                 /\ sales_metrics' = sales_metrics
                 /\ column_mappings' = column_mappings
                 /\ reqs'[p].writes \in {0, reqs[p].writes}
       /\ \A p \in Procs :
             (reqs'[p] # reqs[p] /\ reqs[p].pc \in {"insert", "upsert"}) =>
                 reqs'[p].error = ""
       /\ column_mappings' # column_mappings =>
             \E p \in Procs : reqs[p].pc = "upsert" /\ reqs'[p].pc = "respond"
      ]_vars

\* after a completed upload and a row of the chat handler, a second upload
\* ends with the matching failure and the two tables hold what the others
\* wrote
C9_Witness ==
    /\ reqs[1].status = 400
    /\ reqs[1].error = "could not match detected columns"
    /\ reqs[1].headers # <<>>
    /\ received = 2
    /\ others = 1
    /\ Len(sales_metrics) = 2
    /\ sales_metrics[2].payload = [file_name |-> "chat.csv", headers |-> <<"Bill", "Amount">>]
    /\ Cardinality(column_mappings) = 1

\* every row of the grid is without a non-empty cell (or there is no row)
AllBlank(rows) == \A i \in 1..Len(rows) : nonEmptyCells(rows[i]) = 0

\* C10: a request that fell back to the heuristic after a cache miss and a
\* failed model call, on a grid with no rows or only blank rows, ends with
\* the error "could not detect header row".
C10_UndetectedHeaderReported ==
    \A p \in Procs :
        (FellBack(reqs[p]) /\ AllBlank(reqs[p].file.rows)) =>
            /\ reqs[p].status = 400
            /\ reqs[p].error = "could not detect header row"

---------------------------------------------------------------------------
(* Properties of the header list and of the cleaning pipeline *)

\* C11: the header list of a request holds only non-empty names and no name
\* at two positions, so that the record of a row has one field per header
\* position.
C11_HeadersUniqueByPosition ==
    \A p \in Procs :
        LET hs == reqs[p].headers
        IN  /\ \A j \in 1..Len(hs) : hs[j] # ""
            /\ \A j, k \in 1..Len(hs) : hs[j] = hs[k] => j = k
            /\ \A n \in 1..Len(buildRecords(reqs[p].file.rows, reqs[p].headerRowIdx, hs)) :
                  Cardinality(DOMAIN buildRecords(reqs[p].file.rows,
                                                  reqs[p].headerRowIdx, hs)[n]) = Len(hs)

\* C15: the upload of the dated grid, resolved by the heuristic after a cache
\* miss without a model, loses its middle row to the second-column stage
\* (one row there, none in the summary stage) and is answered with total
\* sales 300.00, two bill rows and two distinct bills.
C15_DatedExample ==
    \A p \in Procs :
        (/\ reqs[p].file = Dated
         /\ FellBack(reqs[p])
         /\ reqs[p].det.aiMsg = "Gemini API key not configured") =>
            /\ reqs[p].error = ""
            /\ reqs[p].headerRowIdx = 0
            /\ reqs[p].salesCol = "Amount" /\ reqs[p].billCol = "Bill No"
            /\ reqs[p].cleaning = [dropped_blank_rows |-> 0,
                                   dropped_totalish_second_col |-> 1,
                                   dropped_summary_rows |-> 0,
                                   final_rows_used |-> 2]
            /\ reqs[p].metrics = [total_sales |-> 30000,
                                  bill_row_count |-> 2,
                                  unique_bill_count |-> 2]

C15_Witness ==
    /\ reqs[1].file = Dated
    /\ FellBack(reqs[1])
    /\ reqs[1].det.aiMsg = "Gemini API key not configured"
    /\ column_mappings = {[user_id |-> reqs[1].user, signature |-> reqs[1].sig,
                           header_row |-> 0, sales_column |-> "Amount",
                           bill_column |-> "Bill No"]}
    /\ reqs[1].status = 200

\* the stage at which the pipeline parts with record r: "blank", "second",
\* "summary", "nobill", or "used" for a record that reaches the metrics
StageOf(r, headers, salesCol, billCol) ==
    IF \A h \in DOMAIN r : TrimSpace(r[h]) = "" THEN "blank"
    ELSE IF Len(headers) >= 2 /\ looksLikeTotalWord(Field(r, headers[2])) THEN "second"
    ELSE IF rowIsTotalish(r) \/ sparseSummary(r, billCol, salesCol) THEN "summary"
    ELSE IF isEffectivelyEmptyBill(Field(r, billCol)) THEN "nobill"
    ELSE "used"

\* the stages of the records built from the probed grid, in row order
ProbeStages ==
    LET recs == buildRecords(probe.rows, 0, probe.headers)
    IN  [n \in 1..Len(recs) |->
            StageOf(recs[n], probe.headers, probe.salesCol, probe.billCol)]

\* the records of the probed grid with stage "used", in row order
ProbeUsed ==
    SelectSeq(buildRecords(probe.rows, 0, probe.headers),
              LAMBDA r : StageOf(r, probe.headers, probe.salesCol, probe.billCol) = "used")

CountStage(stages, name) == Cardinality({n \in 1..Len(stages) : stages[n] = name})

\* the counts and rows of result out are those of the stages given
CountsAre(out, stages, used) ==
    /\ out.droppedBlank = CountStage(stages, "blank")
    /\ out.droppedSecond = CountStage(stages, "second")
    /\ out.droppedSummary = CountStage(stages, "summary")
    /\ out.used = used
    /\ out.billRowsCount = Len(used)
    /\ Len(used) = CountStage(stages, "used")
    /\ out.droppedBlank + out.droppedSecond + out.droppedSummary + out.billRowsCount
          = Len(stages) - CountStage(stages, "nobill")

\* C12: each record is counted by the first stage, in the order blank,
\* second column, summary, that drops it, and by that one alone; the rows
\* used are the records no stage dropped that have a bill, in row order; the
\* three counts and the rows used add up to no more than the records built.
C12_StagesInOrder ==
    (probe.fn = "cleanAndMeasure" /\ probe.returned) =>
        \A stages \in {ProbeStages} :
            /\ Len(stages) = Len(probe.rows) - 1
            /\ CountsAre(probe.out, stages, ProbeUsed)

\* a grid that loses a row at each of the four stages and keeps none
C12_Witness ==
    /\ probe.fn = "cleanAndMeasure" /\ probe.returned
    /\ probe.billCol = "Bill No"
    /\ probe.rows = <<CleanHeader, <<"1/2", "Total", "50">>, <<"", " ", "">>,
                      <<"", "NA", "500">>>>
    /\ probe.out.droppedBlank = 1
    /\ probe.out.droppedSecond = 1
    /\ probe.out.droppedSummary = 1
    /\ probe.out.billRowsCount = 0

\* C13: the pipeline run on the rows it has kept keeps them all, in the
\* same order, and drops none at any stage.
C13_CleanAgainSame ==
    (probe.fn = "cleanAndMeasure" /\ probe.returned) =>
        /\ probe.again.used = probe.out.used
        /\ probe.again.droppedBlank = 0
        /\ probe.again.droppedSecond = 0
        /\ probe.again.droppedSummary = 0
        /\ probe.again.billRowsCount = probe.out.billRowsCount

\* rows were dropped on the first run and two rows are kept by both runs
C13_Witness ==
    /\ probe.fn = "cleanAndMeasure" /\ probe.returned
    /\ probe.out.droppedSecond + probe.out.droppedSummary > 0
    /\ Len(probe.out.used) = 2
    /\ probe.again.used = probe.out.used

\* C14: the unique bill count is the number of distinct non-empty trimmed
\* bill values of the rows used, told apart by case, and is never more than
\* the bill row count.
C14_UniqueBills ==
    (probe.fn = "cleanAndMeasure" /\ probe.returned) =>
        /\ probe.out.uniqueBill =
              Cardinality({TrimSpace(probe.out.used[k][probe.billCol]) :
                              k \in 1..Len(probe.out.used)} \ {""})
        /\ probe.out.uniqueBill <= probe.out.billRowsCount
        /\ probe.out.billRowsCount = Len(probe.out.used)

\* bills "B1", "b1" and "B1" again: three rows, two distinct bills
C14_Witness ==
    /\ probe.fn = "cleanAndMeasure" /\ probe.returned
    /\ probe.billCol = "Bill No"
    /\ probe.rows = <<CleanHeader, <<"1/1", "B1", "100">>, <<"1/3", " b1", "200.50">>,
                      <<"1/4", "B1", "abc">>>>
    /\ probe.out.billRowsCount = 3
    /\ probe.out.uniqueBill = 2

EffectivelyEmpty == {"", "-", "na", "n/a", "none", "null", "nil", "nan", "0"}

\* C19: the rows used are, in row order, the records that pass the three
\* dropping stages and whose bill, trimmed and lower-cased, is none of "",
\* "-", "na", "n/a", "none", "null", "nil", "nan", "0".
C19_UsableBillOnly ==
    (probe.fn = "cleanAndMeasure" /\ probe.returned) =>
        /\ \A k \in 1..Len(probe.out.used) :
              ToLower(TrimSpace(probe.out.used[k][probe.billCol]))
                  \notin EffectivelyEmpty
        /\ probe.out.used =
              SelectSeq(buildRecords(probe.rows, 0, probe.headers),
                        LAMBDA r :
                            /\ StageOf(r, probe.headers, probe.salesCol, probe.billCol)
                                  \in {"nobill", "used"}
                            /\ ToLower(TrimSpace(r[probe.billCol]))
                                  \notin EffectivelyEmpty)

\* the row with bill "0" is left out, the row with bill "B1" is used
C19_Witness ==
    /\ probe.fn = "cleanAndMeasure" /\ probe.returned
    /\ probe.billCol = "Bill No"
    /\ probe.rows = <<CleanHeader, <<"1/5", "0", "7">>, <<"1/1", "B1", "100">>>>
    /\ probe.out.droppedBlank + probe.out.droppedSecond + probe.out.droppedSummary = 0
    /\ Len(probe.out.used) = 1

\* the sales cells of the cleaned grids that are numbers, in hundredths
SalesHundredths ==
    [c \in {"100", "50", "200.50", "500", "5", "7", "9"} |->
        CASE c = "100" -> 10000 [] c = "50" -> 5000 [] c = "200.50" -> 20050
          [] c = "500" -> 50000 [] c = "5" -> 500 [] c = "7" -> 700
          [] c = "9" -> 900]

RECURSIVE SumHundredths(_, _, _)
SumHundredths(rows, col, k) ==
    IF k > Len(rows) THEN 0
    ELSE (IF rows[k][col] \in DOMAIN SalesHundredths
          THEN SalesHundredths[rows[k][col]] ELSE 0)
         + SumHundredths(rows, col, k + 1)

\* C20: total sales is a number, the sum of the sales of the used rows whose
\* sales cell is a number; a used row with an empty or unparsable sales cell
\* adds nothing and still counts as a bill row and for the distinct bills.
C20_UnparsableSalesSkipped ==
    (probe.fn = "cleanAndMeasure" /\ probe.returned) =>
        /\ ~probe.out.totalSales.nan
        /\ round2(probe.out.totalSales)
              = SumHundredths(probe.out.used, probe.salesCol, 1)
        /\ probe.out.billRowsCount = Len(probe.out.used)
        /\ probe.out.uniqueBill =
              Cardinality({probe.out.used[k][probe.billCol] :
                              k \in 1..Len(probe.out.used)})

\* rows with sales "abc", "" and "--" are used beside none other: three
\* bill rows, three distinct bills, total sales 0
C20_Witness ==
    /\ probe.fn = "cleanAndMeasure" /\ probe.returned
    /\ probe.billCol = "Bill No"
    /\ probe.rows = <<CleanHeader, <<"1/4", "B1", "abc">>, <<"1/6", "B4">>,
                      <<"1/7", "B5", "--">>>>
    /\ probe.out.billRowsCount = 3
    /\ probe.out.uniqueBill = 3
    /\ round2(probe.out.totalSales) = 0

\* the fields of r other than the sales field that are neither empty nor
\* the token "nan"
OtherFilled(r, salesCol) ==
    {h \in DOMAIN r \ {salesCol} : r[h] # "" /\ ToLower(r[h]) # "nan"}

\* C16: of the records given to filterSummaryRows, one without a totalish
\* cell is removed exactly when its bill is effectively empty, its sales
\* cell is a number and at most one field besides the sales field is filled
\* (not empty, not "nan"); the others without a totalish cell are kept, in
\* order.
C16_SparseTrigger ==
    (probe.fn = "filterSummaryRows" /\ probe.returned) =>
        \A plain \in {{n \in 1..Len(probe.given) : ~rowIsTotalish(probe.given[n])}} :
            LET sparse == {n \in plain :
                          /\ ToLower(probe.given[n][probe.billCol]) \in EffectivelyEmpty
                          /\ probe.given[n][probe.salesCol] \in DOMAIN SalesHundredths
                          /\ Cardinality(OtherFilled(probe.given[n], probe.salesCol)) <= 1}
            IN  /\ \A n \in plain : (n - 1 \in probe.out.removed) <=> (n \in sparse)
                /\ Len(probe.out.kept) = Cardinality(plain \ sparse)
                /\ \A n \in plain \ sparse :
                      probe.out.kept[Cardinality({i \in plain \ sparse : i <= n})]
                          = probe.given[n]

\* bill "NA" and sales "500" beside an empty date: removed; bill "0" and
\* sales "7" beside a date: kept
C16_Witness ==
    /\ probe.fn = "filterSummaryRows" /\ probe.returned
    /\ probe.billCol = "Bill No"
    /\ probe.rows = <<CleanHeader, <<"", "NA", "500">>, <<"1/5", "0", "7">>>>
    /\ probe.out.removed = {0}
    /\ Len(probe.out.kept) = 1

---------------------------------------------------------------------------
(* Properties of the totalish test *)

\* word w stands at position i of t
At(t, w, i) ==
    i >= 1 /\ i + Len(w) - 1 <= Len(t) /\ SubSeq(t, i, i + Len(w) - 1) = w

\* no word character stands before position i of t / at position i of t
WordStart(t, i) == i = 1 \/ ~IsWordChar(CharAt(t, i - 1))
WordEnd(t, i) == i > Len(t) \/ ~IsWordChar(CharAt(t, i))

\* the word "grand" starts a word of t and only white space lies between it
\* and position k
GrandBefore(t, k) ==
    \E j \in 1..(k - 5) :
        /\ At(t, "grand", j) /\ WordStart(t, j)
        /\ \A n \in (j + 5)..(k - 1) : CharAt(t, n) \in {" ", "\t", "\n", "\r", "\f"}

\* t holds the word "total": it ends a word, and it starts one or follows
\* "sub" or "grand" (white space in between changes nothing, for "total"
\* then starts a word)
HoldsTotal(t) ==
    \E i \in 1..Len(t) :
        /\ At(t, "total", i) /\ WordEnd(t, i + 5)
        /\ \/ WordStart(t, i)
           \/ At(t, "sub", i - 3) /\ (WordStart(t, i - 3) \/ GrandBefore(t, i - 3))
           \/ GrandBefore(t, i)

\* t without its character at position i
Without(t, i) == SubSeq(t, 1, i - 1) \o SubSeq(t, i + 1, Len(t))

\* t is "total" or one insertion, deletion or substitution away from it
NearTotal(t) ==
    \/ t = "total"
    \/ Len(t) = 5 /\ Cardinality({i \in 1..5 : CharAt(t, i) # CharAt("total", i)}) = 1
    \/ Len(t) = 6 /\ \E i \in 1..6 : Without(t, i) = "total"
    \/ Len(t) = 4 /\ \E i \in 1..5 : Without("total", i) = t

\* C17: a cell looks like a total exactly when its trimmed, lower-cased
\* text is not empty and holds the word "total" (also behind "sub" or
\* "grand") or is at most one edit away from "total".
C17_LooksLikeTotal ==
    (probe.fn = "looksLikeTotalWord" /\ probe.returned) =>
        \A t \in {TrimSpace(ToLower(probe.cell))} :
            probe.out <=> (t # "" /\ (HoldsTotal(t) \/ NearTotal(t)))

\* C18: the cell "Totals count" looks like a total, through the pattern and
\* not through the edit distance.
C18_TotalsCountTotalish ==
    (probe.fn = "looksLikeTotalWord" /\ probe.returned /\ probe.cell = "Totals count") =>
        /\ probe.out
        /\ totalRegex("totals count")
        /\ editDistance("totals count", "total") > 1

---------------------------------------------------------------------------
(* Properties of the number parser *)

\* two numbers of the model denote the same value
SameValue(a, b) ==
    /\ ~a.nan /\ ~b.nan
    /\ a.mant * Pow10(b.scale) = b.mant * Pow10(a.scale)

HasDigit(t) == \E i \in 1..Len(t) : IsDigit(CharAt(t, i))

\* C21: toNumeric returns the number the digits of the text denote, stray
\* dots and minus signs being discarded: every text with a digit gives a
\* number, "$1,234.50" gives 1234.50 and "Rs. 500" gives 500.
C21_ParsedFromDigits ==
    (probe.fn = "toNumeric" /\ probe.returned) =>
        /\ HasDigit(probe.cell) => ~probe.out.nan
        /\ probe.cell = "$1,234.50" => SameValue(probe.out, Num(123450, 2))
        /\ probe.cell = "Rs. 500" => SameValue(probe.out, Num(500, 0))

---------------------------------------------------------------------------
(* Properties of the signature *)

\* the rows of a grid at indices 0..4
FirstFive(rows) ==
    [i \in 1..(IF Len(rows) < PreviewRows THEN Len(rows) ELSE PreviewRows) |-> rows[i]]

\* the signature a file gets when it is read on its own
SignatureAlone(f) ==
    LET read == readAllRows(f, ToLower(Ext(f.name)))
    IN  signatureForPreview(firstNRows(read.rows, PreviewRows), read.isNil, read.nilRows)

\* C22: the signature of an upload is the one every readable file with the
\* same first five rows gets, whatever its later rows, its name, the user
\* and the requests served before.
C22_SignatureOfPreviewOnly ==
    \A p \in Procs :
        reqs[p].sig # "" =>
            \A f \in AllFiles :
                (/\ f.form = "ok" /\ readAllRows(f, ToLower(Ext(f.name))).err = ""
                 /\ FirstFive(f.rows) = FirstFive(reqs[p].file.rows))
                    => SignatureAlone(f) = reqs[p].sig

---------------------------------------------------------------------------
(* Properties of the mapping cache under concurrent uploads *)

SameKey(m, n) == m.user_id = n.user_id /\ m.signature = n.signature

\* the row a request sends to the cache
Written(r) ==
    [user_id |-> r.user, signature |-> r.sig, header_row |-> r.headerRowIdx,
     sales_column |-> r.salesCol, bill_column |-> r.billCol]

\* the step is the upsert of request p: its row is in the table, whole, and
\* the rows of the other keys are as before
LastWrite(p) ==
    /\ Written(reqs[p]) \in column_mappings'
    /\ \A m \in column_mappings' :
          m = Written(reqs[p]) \/ (m \in column_mappings /\ ~SameKey(m, Written(reqs[p])))
    /\ \A m \in column_mappings :
          ~SameKey(m, Written(reqs[p])) => m \in column_mappings'

\* C23: under every interleaving the cache holds at most one mapping per
\* (user_id, signature), each upsert that is executed leaves for its key the
\* whole row of its own request (the last upsert to complete wins, no
\* mixture of writers), and no other step changes the cache.
C23_OneMappingLastWriter ==
    /\ [](\A m, n \in column_mappings : SameKey(m, n) => m = n)
    /\ [][IF \E p \in Procs : reqs[p].pc = "upsert" /\ reqs'[p].writes > reqs[p].writes
          THEN \A p \in Procs :
                   (reqs[p].pc = "upsert" /\ reqs'[p].writes > reqs[p].writes)
                       => LastWrite(p)
          ELSE column_mappings' = column_mappings]_vars

\* two uploads of one user and preview that both missed the cache and
\* resolved different mappings; the cache holds the second one's
C23_Witness ==
    /\ reqs[1].status = 200 /\ reqs[2].status = 200
    /\ reqs[1].writes = 2 /\ reqs[2].writes = 2
    /\ SameKey(Written(reqs[1]), Written(reqs[2]))
    /\ ~reqs[1].hit /\ ~reqs[2].hit
    /\ Written(reqs[1]) # Written(reqs[2])
    /\ column_mappings = {Written(reqs[2])}

---------------------------------------------------------------------------
(* Properties of the records *)

\* the trimmed cell of a grid row at header position j (1-based)
CellAt(row, j) == IF j <= Len(row) THEN TrimSpace(row[j]) ELSE ""

\* C24: buildRecords yields one record per row below the header row, in
\* grid order; the record maps the header of every position to the trimmed
\* cell of that position ("" where the row is short) and holds nothing else.
C24_RecordPerRowByPosition ==
    (probe.fn = "buildRecords" /\ probe.returned) =>
        /\ Len(probe.out) = Len(probe.rows) - probe.headerIdx - 1
        /\ \A n \in 1..Len(probe.out) :
              /\ DOMAIN probe.out[n] = Elems(probe.headers)
              /\ \A j \in 1..Len(probe.headers) :
                    probe.out[n][probe.headers[j]]
                        = CellAt(probe.rows[probe.headerIdx + 1 + n], j)

---------------------------------------------------------------------------
(* The cleaning pipeline against its two deciding rules *)

NoTotalCell(r) == \A h \in DOMAIN r : ~looksLikeTotalWord(r[h])

\* C25: the rows used are, in row order, exactly the records without a cell
\* that looks like a total and with a bill that is not effectively empty; the
\* blank-row, second-column and sparse-summary drops only fill the counters.
C25_TwoRulesDecide ==
    (probe.fn = "cleanAndMeasure" /\ probe.returned) =>
        probe.out.used =
            SelectSeq(buildRecords(probe.rows, 0, probe.headers),
                      LAMBDA r :
                          /\ NoTotalCell(r)
                          /\ ToLower(TrimSpace(r[probe.billCol])) \notin EffectivelyEmpty)

\* a blank row and a sparse summary row are counted as dropped, a row with
\* a bill is used
C25_Witness ==
    /\ probe.fn = "cleanAndMeasure" /\ probe.returned
    /\ probe.billCol = "Bill No"
    /\ probe.rows = <<CleanHeader, <<"", " ", "">>, <<"", "NA", "500">>,
                      <<"1/1", "B1", "100">>>>
    /\ probe.out.droppedBlank = 1 /\ probe.out.droppedSummary = 1
    /\ Len(probe.out.used) = 1

---------------------------------------------------------------------------
(* Properties of the diagnostics and of the mapping a request uses *)

\* C26: a response's ai_used is true only if the header row and the column
\* names used were those the model-assisted detector proposed; it is false
\* when the mapping came from the cache or from the heuristic.
C26_AiUsedMeansModelMapping ==
    \A p \in Procs :
        (reqs[p].status = 200 /\ reqs[p].det.aiUsed) =>
            /\ ~reqs[p].hit
            /\ "heuristic" \notin Elems(reqs[p].strategies)
            /\ reqs[p].headerRowIdx = reqs[p].det.headerRowIdx
            /\ reqs[p].salesHeaderText = reqs[p].det.sales
            /\ reqs[p].billHeaderText = reqs[p].det.bill

\* the request has passed lines 66-69
Chosen(r) == r.pc \in {"insert", "upsert", "respond", "done"} /\ r.strategies # <<>>

\* C27: the mapping a request uses comes from one strategy: when the cache
\* or model result lacks the header index or a name, the header row index
\* and both names are the heuristic's; otherwise all three are that result's.
\* (They are chosen in one step of the request and stay as chosen.)
C27_MappingFromOneStrategy ==
    [][\A p \in Procs :
          Chosen(reqs'[p]) =>
              IF Chosen(reqs[p])
              THEN /\ reqs'[p].file = reqs[p].file /\ reqs'[p].det = reqs[p].det
                   /\ Used(reqs'[p]) = Used(reqs[p])
              ELSE \A d \in {reqs'[p].det}, h \in {heuristicDetect(reqs'[p].file.rows)} :
                      IF d.headerRowIdx < 0 \/ d.sales = "" \/ d.bill = ""
                      THEN Used(reqs'[p]) = <<h.headerIdx, h.sales, h.bill>>
                      ELSE Used(reqs'[p]) = <<d.headerRowIdx, d.sales, d.bill>>
      ]_vars

\* the model proposed row 0 and a sales column but no bill column; the
\* heuristic found the header row further down and another sales column
C27_Witness ==
    /\ reqs[1].status = 200
    /\ reqs[1].det.aiMsg = "ok"
    /\ reqs[1].det.headerRowIdx = 0 /\ reqs[1].det.sales # "" /\ reqs[1].det.bill = ""
    /\ reqs[1].headerRowIdx > 0
    /\ reqs[1].salesHeaderText # ""

\* C28: a request that reaches the cleaning pipeline has resolved its sales
\* column and its bill column to two different headers.
C28_SalesAndBillDiffer ==
    \A p \in Procs :
        (Chosen(reqs[p]) /\ reqs[p].error = "") => reqs[p].salesCol # reqs[p].billCol

\* the header row of the detection lies in the preview of the request's grid
InPreview(r) ==
    /\ r.det.headerRowIdx >= 0
    /\ r.det.headerRowIdx < Len(FirstFive(r.file.rows))

\* C29: the columns a request resolved re-resolve to themselves over its
\* headers, and an upload that hits a cached mapping whose header row lies
\* in the preview passes column matching with the header row and the two
\* columns of that mapping, which is the row the cache holds for its key.
C29_CachedMappingResolvesToItself ==
    \A p \in Procs :
        \A r \in {reqs[p]} :
            /\ (Chosen(r) /\ r.error = "") =>
                  /\ findColumn(r.headers, r.salesCol) = r.salesCol
                  /\ findColumn(r.headers, r.billCol) = r.billCol
            /\ (Chosen(r) /\ r.hit /\ InPreview(r)) =>
                  /\ r.error = ""
                  /\ Used(r) = <<r.det.headerRowIdx, r.det.sales, r.det.bill>>
                  /\ r.salesCol = r.det.sales /\ r.billCol = r.det.bill
                  /\ Written(r) \in column_mappings

\* the mapping of the titled sheet, which only the model reply resolves
\* (through a substring match), read back from the cache and answered 200
C29_Witness ==
    /\ reqs[1].hit /\ reqs[1].status = 200
    /\ reqs[1].file = Titled
    /\ reqs[1].headerRowIdx = 1
    /\ reqs[1].salesCol = "Net Amt (Rs)" /\ reqs[1].billCol = "Invoice No."

---------------------------------------------------------------------------
(* Isolation of the users' cached mappings *)

OfOthers(table, user) == {m \in table : m.user_id # user}

\* C30: the mapping a request takes from the cache is the one stored under
\* its own user_id for its signature, also when another user has cached the
\* same signature; and an upsert leaves the rows of all other users as they
\* were.
C30_MappingsPerUser ==
    [][\A p \in Procs :
          /\ (~reqs[p].hit /\ reqs'[p].hit) =>
                 [user_id      |-> reqs'[p].user,
                  signature    |-> reqs'[p].sig,
                  header_row   |-> reqs'[p].det.headerRowIdx,
                  sales_column |-> reqs'[p].det.sales,
                  bill_column  |-> reqs'[p].det.bill] \in column_mappings
          /\ (reqs[p].pc = "upsert" /\ reqs'[p].pc # "upsert") =>
                 OfOthers(column_mappings', reqs[p].user)
                     = OfOthers(column_mappings, reqs[p].user)]_vars

\* user 2 uploads the preview user 1 has cached, misses the cache, and in
\* the end both users hold their own, different mapping for the signature
C30_Witness ==
    /\ reqs[1].status = 200 /\ reqs[2].status = 200
    /\ reqs[1].user # reqs[2].user /\ reqs[1].sig = reqs[2].sig
    /\ ~reqs[1].hit /\ ~reqs[2].hit
    /\ reqs[2].prior = FALSE
    /\ "cache" \in Elems(reqs[2].strategies)
    /\ Written(reqs[1]) \in column_mappings /\ Written(reqs[2]) \in column_mappings
    /\ reqs[1].salesCol # reqs[2].salesCol

====
